---- MODULE Spec2Model ----
(***************************************************************************)
(* A model of the draft orchestration in backend/summarizer.py of Pustaka: *)
(* BookSummarizer.summarize_tournament, summarize_tournament_stream,       *)
(* summarize_synthesize and summarize_iterative_stream, with the helpers   *)
(* they call (summarize, _summarize_ollama, _synthesize_section,           *)
(* _run_completion, _evaluate_draft_quality).                              *)
(*                                                                         *)
(* A text is a sequence of characters.  The Generation Client (the remote  *)
(* model) is the environment: every call draws its reply from a small set. *)
(* Each orchestrator has its own specification; the variables the other    *)
(* orchestrators use keep their initial value.                             *)
(***************************************************************************)
EXTENDS Integers, Sequences, FiniteSets, TLC

VARIABLES
    provider,           \* self.provider
    has_client,         \* self.client is not None
    refs,               \* _generate_references_markdown(search_results)
    pc,                 \* position of the orchestrator's coroutine / thread
    events,             \* kinds of the events yielded so far, in order
    result,             \* the terminal payload handed to the caller
    usage_total,        \* usage_total / total_usage
    calls,              \* Generation Client calls issued so far (history)
    call_usage,         \* summed usage of every call issued so far (history)
    drafts,             \* drafts
    \* ---- summarize_iterative_stream
    max_iterations, target_score,
    current_draft, best_draft, prev_score, stagnation_counter, i,
    score,
    issues, schema_issues,  \* the critic's report of the iteration under way
    exit_reason,        \* reason of the loop_exit event ("" when none)
    top_scored,         \* history: the earliest of the highest-scored drafts
    score_log,          \* history: the score of every critique, in order
    refine_failed,      \* history: a refine call failed
    \* ---- the drafting fan-out of summarize_tournament[_stream]
    n,                  \* the number of drafts asked for
    n_queued,           \* draft tasks submitted and not started
    n_started,          \* draft tasks running summarize, before their call
    n_calling,          \* draft tasks inside their Generation Client call
    client_lock,        \* self._client_lock is held
    drafts_failed,      \* history: draft tasks that gave no content
    ok_usage,           \* history: summed usage of the calls that gave a draft
    judge_reply,        \* history: the reply to the last judge call
    attempt,            \* attempt of the streaming judge loop
    \* ---- summarize_synthesize
    max_retries,        \* self.max_retries
    section_tasks,      \* the section tasks, in the order of STANDARD_SECTIONS
    synthesized_sections,   \* the dict of the sections received so far
    errors_count,
    clock,              \* the time, for the timed fan-out
    \* ---- summarizer_utils: normalize_section_name, extract_sections
    heading,            \* a heading, the argument of normalize_section_name
    normalized,         \* normalize_section_name(heading)
    renormalized,       \* normalize_section_name(normalized)
    document,           \* a draft text, the argument of extract_sections
    section_map,        \* extract_sections(document)
    \* ---- one invocation of _synthesize_section
    loop_i,             \* the loop variable i of "for i in range(self.max_retries)"
    sleeps,             \* history: the seconds of every time.sleep, in order
    failures,           \* history: the kind of every failed attempt, in order
    section_result,     \* the dict _synthesize_section returns
    \* ---- main.py: synthesize_summaries; summarizer_utils: calculate_draft_diversity
    selected,           \* the stored summaries whose id is in req.summary_ids
    http_status,        \* the status of the response (0 while there is none)
    diversity_score,    \* 1000 * diversity_score (-1 while not computed)
    \* ---- _calculate_cost and _get_pricing_info, called by concurrent threads
    model_kind,         \* what self.model_name is to the pricing tables
    pricing_pc,         \* the position of every thread in _calculate_cost
    pricing_lock,       \* the thread that holds _pricing_cache_lock (0: none)
    pricing_cache,      \* self.model_name in self._pricing_cache
    pricing_fresh,      \* now - self._pricing_cache_timestamp < PRICING_CACHE_TTL
    \* ---- what the caller of summarize_tournament_stream has accumulated
    emitted             \* history: the texts of the content events, concatenated

commonVars == <<provider, has_client, refs, pc, events, result, usage_total, calls,
                call_usage, drafts>>
iterVars == <<max_iterations, target_score, current_draft, best_draft, prev_score,
              stagnation_counter, i, score, issues, schema_issues, exit_reason,
              top_scored, score_log, refine_failed>>
tournVars == <<n, n_queued, n_started, n_calling, client_lock, drafts_failed,
               ok_usage, judge_reply, attempt>>
synthVars == <<max_retries, section_tasks, synthesized_sections, errors_count, clock>>
nameVars == <<heading, normalized, renormalized, document, section_map>>
sectionVars == <<loop_i, sleeps, failures, section_result>>
endpointVars == <<selected, http_status, diversity_score>>
\* The variables of the helpers and of the endpoint that are checked on their own.
pricingVars == <<model_kind, pricing_pc, pricing_lock, pricing_cache, pricing_fresh>>
unitVars == <<nameVars, sectionVars, endpointVars, pricingVars>>
helperVars == <<unitVars, emitted>>
vars == <<commonVars, iterVars, tournVars, synthVars, helperVars>>

-----------------------------------------------------------------------------
(* Bounds of the model *)

MaxIter == 4
MaxDrafts == 3
\* The largest number of drafts asked of a tournament: one more than the pool's cap.
MaxRequested == 4

-----------------------------------------------------------------------------
(* Texts *)

Whitespace == {" ", "\n"}

\* str.lstrip(), str.rstrip(): t from its first, or up to its last, character
\* that is no whitespace.
Blank(t) == \A k \in 1..Len(t) : t[k] \in Whitespace
LStrip(t) ==
    IF Blank(t) THEN <<>>
    ELSE SubSeq(t, CHOOSE k \in 1..Len(t) :
                       /\ t[k] \notin Whitespace
                       /\ \A m \in 1..(k - 1) : t[m] \in Whitespace,
                Len(t))
RStrip(t) ==
    IF Blank(t) THEN <<>>
    ELSE SubSeq(t, 1, Len(t) - (CHOOSE d \in 0..(Len(t) - 1) :
                                   /\ t[Len(t) - d] \notin Whitespace
                                   /\ \A m \in (Len(t) - d + 1)..Len(t) :
                                          t[m] \in Whitespace))

\* str.strip()
Strip(t) == RStrip(LStrip(t))

\* summarizer_utils.clean_output: the separator, dashes, meta and excess-newline
\* patterns match no text over the model's characters; the final strip() does.
clean_output(t) == Strip(t)

\* summarizer_utils.normalize_output_format: no line of the model's texts is a
\* digit-led heading, so only the newline collapse (none) and strip() act.
normalize_output_format(t) == Strip(t)

\* An optional text: Python's None or a str.
None == [some |-> FALSE, text |-> <<>>]
Some(t) == [some |-> TRUE, text |-> t]

\* The contents a completion can carry: None, "", whitespace only, or text.
RawContents == {None, Some(<<>>), Some(<<" ">>), Some(<<"a">>), Some(<<" ", "b">>)}

-----------------------------------------------------------------------------
(* Token usage *)

Usage(p, c) == [prompt_tokens |-> p, completion_tokens |-> c, total_tokens |-> p + c]
ZeroUsage == Usage(0, 0)
\* An accumulation that leaves the completion tokens out of the total.
AddUsageNoCompletion(a, b) ==
    [prompt_tokens |-> a.prompt_tokens + b.prompt_tokens,
     completion_tokens |-> a.completion_tokens + b.completion_tokens,
     total_tokens |-> a.total_tokens + b.prompt_tokens]

\* "for k in usage_total: usage_total[k] += res['usage'][k]"
AddUsage(a, b) ==
    [prompt_tokens |-> a.prompt_tokens + b.prompt_tokens,
     completion_tokens |-> a.completion_tokens + b.completion_tokens,
     total_tokens |-> a.total_tokens + b.total_tokens]

\* The usage records a call can report.
CallUsages == {Usage(1, 1), Usage(2, 1)}

-----------------------------------------------------------------------------
(* Generation Client replies *)

Providers == {"OpenRouter", "Groq", "Ollama"}

\* What one call to the backend does: it returns a completion ("ok"), raises
\* ("raise") or, for Ollama's HTTP API, answers with a status other than 200.
Replies(prov, usages) ==
    [kind : {"ok"}, content : RawContents, usage : usages]
        \cup [kind : IF prov = "Ollama" THEN {"raise", "http_error"} ELSE {"raise"},
              content : {None}, usage : {ZeroUsage}]

\* A result dict: {"error": ...} or {"content": ..., "usage": ...}.
ErrorResult == [error |-> TRUE, content |-> None, usage |-> ZeroUsage]
ContentResult(c, u) == [error |-> FALSE, content |-> c, usage |-> u]

\* BookSummarizer._summarize_ollama: any exception (clean_output(None) included)
\* and any status other than 200 give {"error": ...}.
summarize_ollama(reply) ==
    IF reply.kind # "ok" \/ ~reply.content.some THEN ErrorResult
    ELSE ContentResult(Some(clean_output(reply.content.text)), reply.usage)

\* BookSummarizer.summarize, given the reply of its one Generation Client call.
\* The search context is given by the orchestrator, so summarize makes no search
\* of its own and appends no references to the content (lines 552-565, 591-594).
summarize(prov, client, reply) ==
    IF prov = "Ollama" THEN
        LET r == summarize_ollama(reply) IN
        IF r.error THEN r
        ELSE ContentResult(Some(normalize_output_format(r.content.text)), r.usage)
    ELSE IF ~client THEN ErrorResult
    ELSE IF reply.kind # "ok" \/ ~reply.content.some THEN ErrorResult
    ELSE ContentResult(
             Some(normalize_output_format(clean_output(reply.content.text))),
             reply.usage)

\* BookSummarizer._run_completion: "raised" when the exception leaves the helper.
run_completion(prov, client, reply) ==
    IF prov = "Ollama" THEN
        IF reply.kind # "ok" THEN [raised |-> FALSE, res |-> ErrorResult]
        ELSE [raised |-> FALSE, res |-> ContentResult(reply.content, reply.usage)]
    ELSE IF ~client THEN [raised |-> FALSE, res |-> ErrorResult]
    ELSE IF reply.kind # "ok" THEN [raised |-> TRUE, res |-> ErrorResult]
    ELSE [raised |-> FALSE, res |-> ContentResult(reply.content, reply.usage)]

-----------------------------------------------------------------------------
(* The terminal payload *)

NoResult == [kind |-> "none", msg |-> "", content |-> <<>>, fallback |-> None,
             usage |-> ZeroUsage, final_score |-> 0, draft_count |-> 0]

\* No orchestrator has run: the value of the variables a specification leaves alone.
ConfigInit ==
    /\ provider \in Providers
    /\ has_client \in (IF provider = "Ollama" THEN {FALSE} ELSE BOOLEAN)
    /\ refs \in {<<>>, <<"r">>}
    /\ events = <<>>
    /\ result = NoResult
    /\ usage_total = ZeroUsage
    /\ calls = <<>>
    /\ call_usage = ZeroUsage

CommonInit == ConfigInit /\ drafts = <<>>

IterIdle ==
    /\ max_iterations = 0 /\ target_score = 0
    /\ current_draft = <<>>
    /\ best_draft = [content |-> <<>>, score |-> 0, iteration |-> 0]
    /\ prev_score = 0 /\ stagnation_counter = 0 /\ i = 0
    /\ score = 0 /\ issues = <<>> /\ schema_issues = 0
    /\ exit_reason = "" /\ refine_failed = FALSE
    /\ top_scored = [draft |-> <<>>, score |-> 0]
    /\ score_log = <<>>

NoReply == [kind |-> "none", content |-> None, usage |-> ZeroUsage]

TournIdle ==
    /\ n = 0 /\ n_queued = 0 /\ n_started = 0 /\ n_calling = 0
    /\ client_lock = FALSE /\ drafts_failed = 0 /\ ok_usage = ZeroUsage
    /\ judge_reply = NoReply /\ attempt = 0

SynthIdle ==
    /\ max_retries = 0 /\ section_tasks = <<>> /\ synthesized_sections = <<>>
    /\ errors_count = 0 /\ clock = 0

NamesIdle ==
    /\ heading = <<>> /\ normalized = <<>> /\ renormalized = <<>>
    /\ document = <<>> /\ section_map = <<>>

\* A result dict of _synthesize_section with its "error_type".
NoSectionResult == [error |-> FALSE, error_type |-> "", content |-> None,
                    usage |-> ZeroUsage]

SectionIdle ==
    /\ loop_i = 0 /\ sleeps = <<>> /\ failures = <<>>
    /\ section_result = NoSectionResult

EndpointIdle == selected = <<>> /\ http_status = 0 /\ diversity_score = -1

PricingIdle ==
    /\ model_kind = "" /\ pricing_pc = <<>> /\ pricing_lock = 0
    /\ pricing_cache = FALSE /\ pricing_fresh = FALSE

\* No content event has been sent.
StreamIdle == emitted = <<>>

-----------------------------------------------------------------------------
(* summarize_iterative_stream *)

\* The scores a critic can give (a failed critique gives 0); they hold the cases of the gates for
\* the target below: 60, 63, 64 stagnate, 63 -> 68 improves by exactly 5,
\* 80 = 90 - 10 is acceptable, 90 meets the target.
Scores == {60, 63, 64, 68, 80, 90}
\* target_score: the default of SummarizationRequest (main.py).
TargetScores == {90}

\* The usage every call of an iterative run reports.
IterUsages == {Usage(2, 1)}

\* The lists a critic can return under the key "issues"; "minor wording" stands
\* for any issue whose text contains "minor".
MinorIssues == {"minor wording"}
IssueLists == {<<"x">>, <<"x", "y">>, <<"x", "minor wording">>}

\* What the critic's completion text is: not JSON, a JSON array, or a JSON object
\* with a score (a number or not), a list under "issues" and schema_issues entries
\* under structural_issues .. analytical_issues, the keys build_critic_prompt asks for.
Body(json, num, s, iss, sch) ==
    [json |-> json, score_num |-> num, score |-> s, issues |-> iss, schema_issues |-> sch]
InvalidBody == Body("invalid", TRUE, 0, <<>>, 0)
CriticBodies ==
    {InvalidBody, Body("array", TRUE, 0, <<>>, 0), Body("object", FALSE, 0, <<>>, 0)}
        \cup {Body("object", TRUE, s, iss, 0) : s \in Scores, iss \in IssueLists}
        \cup {Body("object", TRUE, s, <<>>, 2) : s \in Scores}

CriticReplies(prov) ==
    [kind : {"ok"}, null : BOOLEAN, body : CriticBodies, usage : IterUsages]
        \cup [kind : IF prov = "Ollama" THEN {"raise", "http_error"} ELSE {"raise"},
              null : {TRUE}, body : {InvalidBody}, usage : {ZeroUsage}]

\* {"score": 0, "issues": ["Critic failed to parse"], "fixes": []}
CriticFallback == Body("object", TRUE, 0, <<"Critic failed to parse">>, 0)

\* BookSummarizer._evaluate_draft_quality.  An {"error"} result has no content, so
\* "{}" is parsed; a None content, a raised call and invalid JSON give the fallback.
evaluate_draft_quality(prov, client, reply) ==
    IF prov # "Ollama" /\ ~client THEN Body("object", TRUE, 0, <<>>, 0)
    ELSE IF reply.kind = "raise" THEN
        IF prov = "Ollama" THEN Body("object", TRUE, 0, <<>>, 0) ELSE CriticFallback
    ELSE IF reply.kind = "http_error" THEN Body("object", TRUE, 0, <<>>, 0)
    ELSE IF reply.null \/ reply.body.json = "invalid" THEN CriticFallback
    ELSE reply.body

ContainsMinor(iss) == \E k \in 1..Len(iss) : iss[k] \in MinorIssues

\* Gate 1: target reached.
TargetMet(s, target) == s >= target

\* Gate 2: acceptance threshold and minor issues.
Acceptable(s, iss, target) ==
    s >= target - 10 /\ (Len(iss) <= 1 \/ ContainsMinor(iss))

\* A guard that also counts an improvement of exactly 5 as stagnation.
StagnatingAtFive(iter_num, s, prev) == iter_num > 1 /\ s - prev <= 5

\* Gate 3: the stagnation guard's condition.
Stagnating(iter_num, s, prev) == iter_num > 1 /\ s - prev < 5

\* Gates that look at the last iteration before they look at stagnation.
LoopExitMaxIterFirst(s, iss, target, stagn, counter, last) ==
    IF TargetMet(s, target) THEN "target_met"
    ELSE IF Acceptable(s, iss, target) THEN "acceptable"
    ELSE IF last THEN "max_iter"
    ELSE IF stagn /\ counter >= 2 THEN "stagnation"
    ELSE ""

\* Gates without the check of the last iteration.
LoopExitNoMaxIter(s, iss, target, stagn, counter, last) ==
    IF TargetMet(s, target) THEN "target_met"
    ELSE IF Acceptable(s, iss, target) THEN "acceptable"
    ELSE IF stagn /\ counter >= 2 THEN "stagnation"
    ELSE ""

\* The decision gates in their order (lines 1397-1425): the reason of the
\* loop_exit event, "" when the loop goes on to the refinement.
LoopExit(s, iss, target, stagn, counter, last) ==
    IF TargetMet(s, target) THEN "target_met"
    ELSE IF Acceptable(s, iss, target) THEN "acceptable"
    ELSE IF stagn /\ counter >= 2 THEN "stagnation"
    ELSE IF last THEN "max_iter"
    ELSE ""

\* The earliest of the drafts with the highest critic score so far (the initial
\* draft while no score exceeded 0), after draft got score s.
EarliestHighest(top, draft, s) ==
    IF s > top.score THEN [draft |-> draft, score |-> s] ELSE top

\* An update that lets a later draft with an equal score replace the best one.
UpdateBestOnTie(best, draft, s, iter_num) ==
    IF s >= best.score THEN [content |-> draft, score |-> s, iteration |-> iter_num]
    ELSE best

\* The best draft after a critique.
UpdateBest(best, draft, s, iter_num) ==
    IF s > best.score THEN [content |-> draft, score |-> s, iteration |-> iter_num]
    ELSE best

IterInit ==
    /\ CommonInit
    /\ pc = "it_start"
    /\ max_iterations \in 1..MaxIter
    /\ target_score \in TargetScores
    /\ current_draft = <<>>
    /\ best_draft = [content |-> <<>>, score |-> 0, iteration |-> 0]
    /\ prev_score = 0 /\ stagnation_counter = 0 /\ i = 0
    /\ score = 0 /\ issues = <<>> /\ schema_issues = 0
    /\ exit_reason = "" /\ refine_failed = FALSE
    /\ top_scored = [draft |-> <<>>, score |-> 0]
    /\ score_log = <<>>
    /\ TournIdle
    /\ SynthIdle
    /\ NamesIdle
    /\ SectionIdle
    /\ EndpointIdle
    /\ PricingIdle
    /\ StreamIdle

\* Lines 1309-1341: the metadata check and the first status events.
IterStart ==
    /\ pc = "it_start"
    /\ \E book_metadata_empty \in BOOLEAN :
         IF book_metadata_empty THEN
             /\ events' = Append(events, "error")
             /\ result' = [NoResult EXCEPT !.kind = "error"]
             /\ pc' = "end"
         ELSE
             /\ events' = events \o (IF refs # <<>> THEN <<"status", "status", "draft">>
                                     ELSE <<"status", "draft">>)
             /\ pc' = "it_draft"
             /\ UNCHANGED result
    /\ UNCHANGED <<provider, has_client, refs, usage_total, calls, call_usage, drafts,
                   iterVars, tournVars, synthVars, helperVars>>

\* Lines 1343-1362: the initial draft, one call of summarize.
IterInitialDraft ==
    /\ pc = "it_draft"
    /\ \E reply \in Replies(provider, IterUsages) :
         LET res == summarize(provider, has_client, reply) IN
         /\ calls' = Append(calls, "draft")
         /\ call_usage' = AddUsage(call_usage, reply.usage)
         /\ IF res.error THEN
                /\ events' = Append(events, "error")
                /\ result' = [NoResult EXCEPT !.kind = "error"]
                /\ pc' = "end"
                /\ UNCHANGED <<current_draft, usage_total, best_draft, top_scored>>
            ELSE
                /\ top_scored' = [draft |-> res.content.text, score |-> 0]
                /\ current_draft' = res.content.text
                /\ usage_total' = AddUsage(usage_total, res.usage)
                /\ best_draft' = [content |-> res.content.text, score |-> 0, iteration |-> 0]
                /\ events' = Append(events, "draft_complete")
                /\ pc' = "it_critic"
                /\ UNCHANGED result
    /\ UNCHANGED <<provider, has_client, refs, drafts, max_iterations, target_score,
                   prev_score, stagnation_counter, i, score, issues, schema_issues,
                   exit_reason, score_log, refine_failed, tournVars, synthVars, helperVars>>

\* The content of the final refine_complete event (lines 1455-1466).
IterFinalContent(best) == normalize_output_format(best.content) \o refs

\* Lines 1452-1491, reached by every break of the loop: the events yielded up to
\* the break, then the final content and the done event.
IterFinalize(evs, best, usage, iter_num) ==
    /\ events' = events \o evs \o <<"status", "refine_complete", "done">>
    /\ result' = [kind |-> "done", msg |-> "", content |-> IterFinalContent(best),
                  fallback |-> None, usage |-> usage,
                  final_score |-> best.score, draft_count |-> iter_num]
    /\ pc' = "end"

\* The except branch of the loop body (lines 1446-1450): an error event, then break.
IterationError ==
    /\ IterFinalize(<<"critic_start", "error">>, best_draft, usage_total, i + 1)
    /\ UNCHANGED <<best_draft, prev_score, stagnation_counter, score, issues,
                   schema_issues, exit_reason, top_scored, score_log>>

\* Lines 1368-1425: the critic call of iteration i + 1 and the decision gates.
IterCritic ==
    /\ pc = "it_critic"
    /\ \E reply \in CriticReplies(provider) :
         LET critic_res == evaluate_draft_quality(provider, has_client, reply)
             iter_num == i + 1
             s == critic_res.score
             iss == critic_res.issues
             stagn == Stagnating(iter_num, s, prev_score)
             counter == IF stagn THEN stagnation_counter + 1 ELSE 0
             reason == LoopExit(s, iss, target_score, stagn, counter,
                                i = max_iterations - 1)
         IN
         /\ calls' = Append(calls, "critic")
         /\ call_usage' = AddUsage(call_usage, reply.usage)
         /\ IF critic_res.json = "array" \/ ~critic_res.score_num THEN IterationError
            ELSE
                /\ score' = s
                /\ issues' = iss
                /\ schema_issues' = critic_res.schema_issues
                /\ top_scored' = EarliestHighest(top_scored, current_draft, s)
                /\ score_log' = Append(score_log, s)
                /\ best_draft' = UpdateBest(best_draft, current_draft, s, iter_num)
                /\ exit_reason' = reason
                /\ stagnation_counter' =
                       IF reason \in {"target_met", "acceptable"} THEN stagnation_counter
                       ELSE counter
                /\ prev_score' =
                       IF reason \in {"target_met", "acceptable", "stagnation"}
                       THEN prev_score ELSE s
                /\ IF reason # "" THEN
                       IterFinalize(<<"critic_start", "score", "loop_exit">>,
                                    UpdateBest(best_draft, current_draft, s, iter_num),
                                    usage_total, iter_num)
                   ELSE
                       /\ events' = events \o <<"critic_start", "score", "refine_start">>
                       /\ pc' = "it_refine"
                       /\ UNCHANGED result
    /\ UNCHANGED <<provider, has_client, refs, usage_total, drafts,
                   max_iterations, target_score, current_draft, i, refine_failed,
                   tournVars, synthVars, helperVars>>

\* Lines 1427-1450: the refine call of iteration i + 1.
IterRefine ==
    /\ pc = "it_refine"
    /\ \E reply \in Replies(provider, IterUsages) :
         LET rc == run_completion(provider, has_client, reply) IN
         /\ calls' = Append(calls, "refine")
         /\ call_usage' = AddUsage(call_usage, reply.usage)
         /\ IF rc.raised \/ (~rc.res.error /\ ~rc.res.content.some) THEN
                \* the call raised, or clean_output(None) did
                /\ IterFinalize(<<"error">>, best_draft, usage_total, i + 1)
                /\ refine_failed' = TRUE
                /\ UNCHANGED <<current_draft, usage_total, i, issues, schema_issues>>
            ELSE IF rc.res.error THEN
                /\ IterFinalize(<<"error">>, best_draft, usage_total, i + 1)
                /\ refine_failed' = TRUE
                /\ UNCHANGED <<current_draft, usage_total, i, issues, schema_issues>>
            ELSE
                /\ current_draft' = clean_output(rc.res.content.text)
                /\ issues' = <<>>
                /\ schema_issues' = 0
                /\ usage_total' = AddUsage(usage_total, rc.res.usage)
                /\ events' = Append(events, "refine_complete")
                /\ i' = i + 1
                /\ pc' = "it_critic"
                /\ UNCHANGED <<refine_failed, result>>
    /\ UNCHANGED <<provider, has_client, refs, drafts, max_iterations,
                   target_score, best_draft, prev_score, stagnation_counter, score,
                   exit_reason, top_scored, score_log, tournVars, synthVars, helperVars>>

IterNext == IterStart \/ IterInitialDraft \/ IterCritic \/ IterRefine

SpecIterative == IterInit /\ [][IterNext]_vars

\* The generator is resumed until it has yielded its last event, and every call
\* it awaits returns or raises: it goes on from each position short of the end.
IterAdvances ==
    /\ pc # "end"
    /\ pc' \in {"it_draft", "it_critic", "it_refine", "end"} \ {pc}
SpecIterativeFair == IterInit /\ [][IterNext]_vars /\ WF_pc(IterAdvances)

-----------------------------------------------------------------------------
(* Properties of summarize_iterative_stream *)

CountCalls(kind) == Cardinality({k \in 1..Len(calls) : calls[k] = kind})
HasEvent(kind) == \E k \in 1..Len(events) : events[k] = kind
IterDone == pc = "end" /\ result.kind = "done"

\* C5: the final content is built from the earliest of the drafts with the highest
\* critic score (the initial draft when no score exceeded 0), final_score is the
\* stored best score, and the stored best score never decreases.
C5_FinalIsBestDraft ==
    /\ [](pc \in {"it_critic", "it_refine", "end"} /\ result.kind # "error" =>
            /\ best_draft.content = top_scored.draft
            /\ best_draft.score = top_scored.score)
    /\ [](IterDone =>
            /\ result.content = normalize_output_format(top_scored.draft) \o refs
            /\ result.final_score = top_scored.score)
    /\ [][best_draft'.score >= best_draft.score]_vars

\* C5 witness: a run ended whose last draft scored lower than an earlier, different
\* draft, which is the one returned.
C5_Witness ==
    /\ IterDone
    /\ Len(score_log) >= 2
    /\ score_log[Len(score_log)] < top_scored.score
    /\ current_draft # top_scored.draft
    /\ result.content = normalize_output_format(top_scored.draft) \o refs

\* C6: once a refine call failed the run has ended in a done event that carries
\* the best draft, the failed refine call was the last call, and no error event
\* was sent to the caller.
C6_RefineFailureIsSilent ==
    refine_failed =>
        /\ IterDone
        /\ result.content = IterFinalContent(best_draft)
        /\ calls[Len(calls)] = "refine"
        /\ ~HasEvent("error")

\* Iteration k (k > 1) improved on iteration k - 1 by less than 5.
StagnatedAt(k) == k > 1 /\ score_log[k] - score_log[k - 1] < 5

\* The number of consecutive stagnating iterations that end the score log.
RECURSIVE TrailingStagnation(_)
TrailingStagnation(k) == IF k > 1 /\ StagnatedAt(k) THEN 1 + TrailingStagnation(k - 1) ELSE 0

\* The gates of the last critique have been evaluated.
GatesEvaluated == pc = "it_refine" \/ exit_reason # ""

\* C7: with target 90, 3 iterations and scores 60, 63, 64 the run makes three
\* critiques and two refinements and exits by stagnation with the draft scored 64;
\* the stagnation exit fires exactly when the last two iterations (both after the
\* first) each improved by less than 5 and neither target nor acceptable fired,
\* and the counter holds the number of trailing stagnating iterations.
C7_StagnationExit ==
    /\ (pc = "end" /\ target_score = 90 /\ max_iterations = 3
            /\ score_log = <<60, 63, 64>> =>
          /\ exit_reason = "stagnation"
          /\ CountCalls("critic") = 3 /\ CountCalls("refine") = 2
          /\ result.kind = "done" /\ result.final_score = 64
          /\ top_scored.score = 64
          /\ result.content = normalize_output_format(top_scored.draft) \o refs)
    /\ (GatesEvaluated =>
          LET k == Len(score_log) IN
          /\ exit_reason = "stagnation" <=>
                 /\ k >= 3 /\ StagnatedAt(k) /\ StagnatedAt(k - 1)
                 /\ exit_reason \notin {"target_met", "acceptable"}
          /\ pc = "it_refine" => stagnation_counter = TrailingStagnation(k))

\* C7 witness: the run of the example has ended by stagnation.
C7_Witness ==
    /\ pc = "end" /\ target_score = 90 /\ max_iterations = 3
    /\ score_log = <<60, 63, 64>> /\ exit_reason = "stagnation"

\* C8: the acceptable exit is taken only with a score of at least
\* target_score - 10 and at most one issue reported by the critic.
C8_AcceptableExit ==
    exit_reason = "acceptable" =>
        /\ score >= target_score - 10
        /\ Len(issues) + schema_issues <= 1

-----------------------------------------------------------------------------
(* The drafting fan-out of summarize_tournament and summarize_tournament_stream *)

\* max_workers=min(n, 3) of the ThreadPoolExecutor of summarize_tournament.
PoolCap == 3
Min(a, b) == IF a < b THEN a ELSE b

\* The draft tasks are alike and the index of a task is never used, so the tasks
\* are counted per position rather than named.

\* A worker takes a submitted task and runs summarize up to its call; at most
\* cap tasks run at once.
DraftStart(cap) ==
    /\ pc = "drafting"
    /\ n_queued > 0
    /\ n_started + n_calling < cap
    /\ n_queued' = n_queued - 1
    /\ n_started' = n_started + 1
    /\ UNCHANGED <<provider, has_client, refs, pc, events, result, usage_total, calls,
                   call_usage, drafts, iterVars, synthVars, helperVars, n, n_calling, client_lock,
                   drafts_failed, ok_usage, judge_reply, attempt>>

\* summarize without a client (lines 581): {"error": "No client"}, no call.
DraftNoClient ==
    /\ pc = "drafting"
    /\ n_started > 0
    /\ provider # "Ollama" /\ ~has_client
    /\ n_started' = n_started - 1
    /\ drafts_failed' = drafts_failed + 1
    /\ UNCHANGED <<provider, has_client, refs, pc, events, result, usage_total, calls,
                   call_usage, drafts, iterVars, synthVars, helperVars, n, n_queued, n_calling, client_lock,
                   ok_usage, judge_reply, attempt>>

\* summarize entering the client's call without waiting for self._client_lock.
DraftCallNoLock ==
    /\ pc = "drafting"
    /\ n_started > 0
    /\ IF provider = "Ollama" THEN UNCHANGED client_lock
       ELSE has_client /\ client_lock' = TRUE
    /\ n_started' = n_started - 1
    /\ n_calling' = n_calling + 1
    /\ calls' = Append(calls, "draft")
    /\ UNCHANGED <<provider, has_client, refs, pc, events, result, usage_total,
                   call_usage, drafts, iterVars, synthVars, helperVars, n, n_queued,
                   drafts_failed, ok_usage, judge_reply, attempt>>

\* summarize enters its call: requests.post for Ollama, else
\* "with self._client_lock: self.client.chat.completions.create(...)" (582-583).
DraftCall ==
    /\ pc = "drafting"
    /\ n_started > 0
    /\ IF provider = "Ollama" THEN UNCHANGED client_lock
       ELSE has_client /\ ~client_lock /\ client_lock' = TRUE
    /\ n_started' = n_started - 1
    /\ n_calling' = n_calling + 1
    /\ calls' = Append(calls, "draft")
    /\ UNCHANGED <<provider, has_client, refs, pc, events, result, usage_total,
                   call_usage, drafts, iterVars, synthVars, helperVars, n, n_queued, drafts_failed, ok_usage,
                   judge_reply, attempt>>

\* A call returns, the lock is released, summarize returns and the orchestrator
\* collects the result (lines 972-984, 1125-1137): results are collected in the
\* order of completion.  A collected draft yields a status event when streaming.
DraftReturn(streaming) ==
    /\ pc = "drafting"
    /\ n_calling > 0
    /\ \E reply \in Replies(provider, CallUsages) :
         LET res == summarize(provider, has_client, reply) IN
         /\ n_calling' = n_calling - 1
         /\ client_lock' = IF provider = "Ollama" THEN client_lock ELSE FALSE
         /\ call_usage' = AddUsage(call_usage, reply.usage)
         /\ IF res.error THEN
                /\ drafts_failed' = drafts_failed + 1
                /\ UNCHANGED <<drafts, usage_total, ok_usage, events>>
            ELSE
                /\ drafts' = Append(drafts, res.content.text)
                /\ usage_total' = AddUsage(usage_total, res.usage)
                /\ ok_usage' = AddUsage(ok_usage, res.usage)
                /\ events' = IF streaming THEN Append(events, "status") ELSE events
                /\ UNCHANGED drafts_failed
    /\ UNCHANGED <<provider, has_client, refs, pc, result, calls, iterVars, synthVars, helperVars, n,
                   n_queued, n_started, judge_reply, attempt>>

DraftingOver == pc = "drafting" /\ n_queued = 0 /\ n_started = 0 /\ n_calling = 0

-----------------------------------------------------------------------------
(* summarize_tournament *)

TournInit ==
    /\ CommonInit
    /\ pc = "start"
    /\ n \in 1..MaxRequested
    /\ n_queued = 0 /\ n_started = 0 /\ n_calling = 0
    /\ client_lock = FALSE /\ drafts_failed = 0 /\ ok_usage = ZeroUsage
    /\ judge_reply = NoReply /\ attempt = 0
    /\ IterIdle
    /\ SynthIdle
    /\ NamesIdle
    /\ SectionIdle
    /\ EndpointIdle
    /\ PricingIdle
    /\ StreamIdle

\* Lines 941-970: the argument checks, then the n draft tasks are submitted.
TournStart ==
    /\ pc = "start"
    /\ \E book_metadata_empty \in BOOLEAN :
         IF book_metadata_empty THEN
             /\ result' = [NoResult EXCEPT !.kind = "error", !.msg = "empty_metadata"]
             /\ pc' = "end"
             /\ UNCHANGED n_queued
         ELSE
             /\ n_queued' = n
             /\ pc' = "drafting"
             /\ UNCHANGED result
    /\ UNCHANGED <<provider, has_client, refs, events, usage_total, calls, call_usage,
                   drafts, iterVars, synthVars, helperVars, n, n_started, n_calling, client_lock,
                   drafts_failed, ok_usage, judge_reply, attempt>>

\* sonar_citations is assigned in the client branch only (line 1026); the Ollama
\* branch (1002-1006) leaves it unbound, and reading it at line 1054 raises.
SonarCitationsBound(prov) == prov # "Ollama"

\* Lines 990-1072, given the reply to the judge call: whether the judged document
\* is returned, its content, and the usage added to usage_total before any raise.
tournament_judge(prov, client, reply) ==
    IF prov = "Ollama" THEN
        LET r == summarize_ollama(reply) IN
        IF r.error THEN [ok |-> FALSE, content |-> <<>>, added |-> ZeroUsage]
        ELSE [ok |-> SonarCitationsBound(prov),
              content |-> normalize_output_format(r.content.text) \o refs,
              added |-> r.usage]
    ELSE IF ~client \/ reply.kind # "ok" \/ ~reply.content.some THEN
        [ok |-> FALSE, content |-> <<>>, added |-> ZeroUsage]
    ELSE [ok |-> SonarCitationsBound(prov),
          content |-> normalize_output_format(clean_output(reply.content.text)) \o refs,
          added |-> reply.usage]

\* Lines 986-1072: no drafts, or the judge call and the returned dict.
TournJudge ==
    /\ DraftingOver
    /\ pc' = "end"
    /\ IF drafts = <<>> THEN
           /\ result' = [NoResult EXCEPT !.kind = "error", !.msg = "no_drafts"]
           /\ UNCHANGED <<usage_total, calls, call_usage, judge_reply>>
       ELSE
           \E reply \in Replies(provider, CallUsages) :
             LET j == tournament_judge(provider, has_client, reply)
                 total == AddUsage(usage_total, j.added)
             IN
             /\ calls' = Append(calls, "judge")
             /\ call_usage' = AddUsage(call_usage, reply.usage)
             /\ judge_reply' = reply
             /\ usage_total' = total
             /\ result' =
                  IF j.ok THEN
                      [NoResult EXCEPT !.kind = "done", !.content = j.content,
                                       !.usage = total, !.draft_count = Len(drafts)]
                  ELSE
                      [NoResult EXCEPT !.kind = "error", !.msg = "judging_failed",
                                       !.fallback = Some(drafts[1]), !.usage = total]
    /\ UNCHANGED <<provider, has_client, refs, events, drafts, iterVars, synthVars, helperVars, n, n_queued,
                   n_started, n_calling, client_lock, drafts_failed, ok_usage, attempt>>

TournNext ==
    \/ TournStart
    \/ DraftStart(Min(n, PoolCap))
    \/ DraftNoClient
    \/ DraftCall
    \/ DraftReturn(FALSE)
    \/ TournJudge

SpecTournament == TournInit /\ [][TournNext]_vars

-----------------------------------------------------------------------------
(* summarize_tournament_stream *)

\* max_attempts of the judge loop.
MaxAttempts == 2

StreamInit == TournInit

\* Lines 1079-1122: the metadata check, the first status event, and the task
\* group that starts the n draft tasks.
StreamStart ==
    /\ pc = "start"
    /\ \E book_metadata_empty \in BOOLEAN :
         IF book_metadata_empty THEN
             /\ events' = Append(events, "error")
             /\ result' = [NoResult EXCEPT !.kind = "error", !.msg = "empty_metadata"]
             /\ pc' = "end"
             /\ UNCHANGED n_queued
         ELSE
             /\ events' = Append(events, "status")
             /\ n_queued' = n
             /\ pc' = "drafting"
             /\ UNCHANGED result
    /\ UNCHANGED <<provider, has_client, refs, usage_total, calls, call_usage,
                   drafts, iterVars, synthVars, helperVars, n, n_started, n_calling, client_lock,
                   drafts_failed, ok_usage, judge_reply, attempt>>

\* A stream that goes on to the judge whatever the drafts are.
StreamCollectedUnchecked ==
    /\ DraftingOver
    /\ pc' = "judging"
    /\ UNCHANGED <<provider, has_client, refs, events, result, usage_total, calls,
                   call_usage, drafts, iterVars, tournVars, synthVars, helperVars>>

\* Lines 1139-1147: the n results are received; without a draft the stream ends.
StreamCollected ==
    /\ DraftingOver
    /\ IF drafts = <<>> THEN
           /\ events' = Append(events, "error")
           /\ result' = [NoResult EXCEPT !.kind = "error", !.msg = "no_drafts"]
           /\ pc' = "end"
       ELSE
           /\ pc' = "judging"
           /\ UNCHANGED <<events, result>>
    /\ UNCHANGED <<provider, has_client, refs, usage_total, calls, call_usage,
                   drafts, iterVars, tournVars, synthVars, helperVars>>

\* The events of a streamed text: one content event when the text is not empty.
ContentEvents(t) == IF t = <<>> THEN <<>> ELSE <<"content">>

\* The chunk a streamed call has passed on when it raises after its first chunk.
PartialChunk == <<"a">>

\* The text of a reply as it is streamed: chunks are passed on as they arrive.
Streamed(reply) == IF reply.content.some THEN reply.content.text ELSE <<>>

\* One pass of the judge loop for Ollama (1157-1172 and _stream_ollama): the
\* chunks of _stream_ollama are passed on, its own done or error event included,
\* and the generator returns.
StreamJudgeOllama ==
    /\ pc = "judging"
    /\ provider = "Ollama"
    /\ \E reply \in Replies(provider, CallUsages) :
         /\ calls' = Append(calls, "judge")
         /\ call_usage' = AddUsage(call_usage, reply.usage)
         /\ judge_reply' = reply
         /\ IF reply.kind = "ok" THEN
                /\ events' = events \o <<"status">> \o ContentEvents(Streamed(reply))
                                 \o ContentEvents(refs) \o <<"done">>
                /\ emitted' = emitted \o Streamed(reply) \o refs
                /\ usage_total' = AddUsage(usage_total, reply.usage)
                /\ result' = [NoResult EXCEPT !.kind = "done",
                                              !.content = Streamed(reply) \o refs,
                                              !.usage = reply.usage]
            ELSE
                /\ events' = events \o <<"status", "error">>
                /\ result' = [NoResult EXCEPT !.kind = "error", !.msg = "ollama_error"]
                /\ UNCHANGED <<usage_total, emitted>>
    /\ pc' = "end"
    /\ UNCHANGED <<provider, has_client, refs, drafts, iterVars, synthVars, unitVars,
                   n, n_queued, n_started, n_calling, client_lock, drafts_failed,
                   ok_usage, attempt>>

\* One pass of the judge loop for a client provider (1157-1161, 1173-1252): the
\* streamed call either completes, or raises at create or while chunks arrive.
\* The usage chunk is optional: judge_reply keeps the usage the stream reported.
\* After the last pass the non-streaming call is next.
StreamJudgeClient ==
    /\ pc = "judging"
    /\ provider # "Ollama"
    /\ IF ~has_client THEN
           /\ events' = events \o <<"status", "error">>
           /\ result' = [NoResult EXCEPT !.kind = "error", !.msg = "no_client"]
           /\ pc' = "end"
           /\ UNCHANGED <<calls, call_usage, judge_reply, usage_total, attempt, emitted>>
       ELSE
           \E reply \in Replies(provider, CallUsages), partial \in BOOLEAN,
              usage_chunk \in BOOLEAN :
             LET final_usage == IF usage_chunk THEN reply.usage ELSE ZeroUsage
                 total == AddUsage(usage_total, final_usage)
             IN
             /\ calls' = Append(calls, "judge")
             /\ call_usage' = AddUsage(call_usage, reply.usage)
             /\ judge_reply' = [reply EXCEPT !.usage = final_usage]
             /\ IF reply.kind = "ok" THEN
                    /\ ~partial
                    /\ events' = events \o <<"status">> \o ContentEvents(Streamed(reply))
                                     \o ContentEvents(refs) \o <<"done">>
                    /\ emitted' = emitted \o Streamed(reply) \o refs
                    /\ usage_total' = total
                    /\ result' = [NoResult EXCEPT !.kind = "done",
                                                  !.content = Streamed(reply) \o refs,
                                                  !.usage = total,
                                                  !.draft_count = Len(drafts)]
                    /\ pc' = "end"
                    /\ UNCHANGED attempt
                ELSE
                    /\ usage_chunk
                    /\ events' = events \o <<"status">>
                                     \o (IF partial THEN <<"content">> ELSE <<>>)
                                     \o (IF attempt < MaxAttempts - 1 THEN <<>>
                                         ELSE <<"status">>)
                    /\ emitted' = emitted \o (IF partial THEN PartialChunk ELSE <<>>)
                    /\ IF attempt < MaxAttempts - 1
                       THEN attempt' = attempt + 1 /\ pc' = "judging"
                       ELSE pc' = "fallback" /\ UNCHANGED attempt
                    /\ UNCHANGED <<usage_total, result>>
    /\ UNCHANGED <<provider, has_client, refs, drafts, iterVars, synthVars, unitVars,
                   n, n_queued, n_started, n_calling, client_lock, drafts_failed,
                   ok_usage>>

\* Lines 1253-1302: the non-streaming call after the last failed pass.  Its
\* content is sent as one event, unchanged (None included), then done; when the
\* call raises, the error event is the last event.
StreamFallback ==
    /\ pc = "fallback"
    /\ \E reply \in Replies(provider, CallUsages) :
         /\ calls' = Append(calls, "judge")
         /\ call_usage' = AddUsage(call_usage, reply.usage)
         /\ judge_reply' = reply
         /\ IF reply.kind = "ok" THEN
                /\ events' = events \o <<"content", "done">>
                /\ emitted' = emitted \o Streamed(reply)
                /\ usage_total' = AddUsage(usage_total, reply.usage)
                /\ result' = [NoResult EXCEPT
                                 !.kind = "done", !.msg = "is_fallback_used",
                                 !.content = Streamed(reply),
                                 !.usage = AddUsage(usage_total, reply.usage)]
            ELSE
                /\ events' = Append(events, "error")
                /\ result' = [NoResult EXCEPT !.kind = "error",
                                              !.msg = "all_attempts_failed"]
                /\ UNCHANGED <<usage_total, emitted>>
    /\ pc' = "end"
    /\ UNCHANGED <<provider, has_client, refs, drafts, iterVars, synthVars, unitVars,
                   n, n_queued, n_started, n_calling, client_lock, drafts_failed,
                   ok_usage, attempt>>

StreamNext ==
    \/ StreamStart
    \/ DraftStart(n)
    \/ DraftNoClient
    \/ DraftCall
    \/ DraftReturn(TRUE)
    \/ StreamCollected
    \/ StreamJudgeOllama
    \/ StreamJudgeClient
    \/ StreamFallback

SpecTournamentStream == StreamInit /\ [][StreamNext]_vars

-----------------------------------------------------------------------------
(* Section names: prompts/constants.py, summarizer_utils.py *)

\* "c" * k
Rep(c, k) == [j \in 1..k |-> c]

Capitals ==
    <<"A", "B", "C", "D", "E", "F", "G", "H", "I", "J", "K", "L", "M",
      "N", "O", "P", "Q", "R", "S", "T", "U", "V", "W", "X", "Y", "Z">>
Smalls ==
    <<"a", "b", "c", "d", "e", "f", "g", "h", "i", "j", "k", "l", "m",
      "n", "o", "p", "q", "r", "s", "t", "u", "v", "w", "x", "y", "z">>
UpperLetters == {Capitals[j] : j \in 1..Len(Capitals)}
LowerLetters == {Smalls[j] : j \in 1..Len(Smalls)}

\* U+01F0, a small j with a caron: a letter that has no capital of its own, one
\* of the characters whose upper() is a capital followed by a combining mark
\* (here U+030C), which is no word character.
SmallJCaron == "j-caron"
CombiningCaron == "caron"

\* str.upper()
ToUpper(c) ==
    IF c \in LowerLetters THEN Capitals[CHOOSE j \in 1..Len(Smalls) : Smalls[j] = c]
    ELSE c
RECURSIVE UpperFrom(_, _)
UpperFrom(t, k) ==
    IF k > Len(t) THEN <<>>
    ELSE (IF t[k] = SmallJCaron THEN <<"J", CombiningCaron>> ELSE <<ToUpper(t[k])>>)
             \o UpperFrom(t, k + 1)
Upper(t) ==
    IF \A j \in 1..Len(t) : t[j] # SmallJCaron THEN [j \in 1..Len(t) |-> ToUpper(t[j])]
    ELSE UpperFrom(t, 1)

\* sub in t
Contains(sub, t) ==
    \E k \in 0..(Len(t) - Len(sub)) : \A j \in 1..Len(sub) : t[k + j] = sub[j]

\* t.split(sep) for a one-character separator: the pieces between the
\* occurrences of sep, the ends of t included.
Split(t, sep) ==
    LET at == {k \in 1..Len(t) : t[k] = sep}
        cut == [j \in 0..(Cardinality(at) + 1) |->
                  IF j = 0 THEN 0
                  ELSE IF j = Cardinality(at) + 1 THEN Len(t) + 1
                  ELSE CHOOSE k \in at : Cardinality({m \in at : m < k}) = j - 1]
    IN [j \in 1..(Cardinality(at) + 1) |-> SubSeq(t, cut[j - 1] + 1, cut[j] - 1)]

\* sep.join(parts)
RECURSIVE Join(_, _)
Join(parts, sep) ==
    IF parts = <<>> THEN <<>>
    ELSE IF Len(parts) = 1 THEN parts[1]
    ELSE parts[1] \o sep \o Join(Tail(parts), sep)

\* A dict as the sequence of its items in insertion order.
DictHas(d, k) == \E j \in 1..Len(d) : d[j].k = k
DictGet(d, k) == d[CHOOSE j \in 1..Len(d) : d[j].k = k].v
DictSet(d, k, v) ==
    IF DictHas(d, k) THEN [j \in 1..Len(d) |-> IF d[j].k = k THEN [k |-> k, v |-> v] ELSE d[j]]
    ELSE Append(d, [k |-> k, v |-> v])

ExecutiveSummary ==
    <<"E", "X", "E", "C", "U", "T", "I", "V", "E", " ", "S", "U", "M", "M", "A", "R",
    "Y", " ", "&", " ", "C", "O", "R", "E", " ", "T", "H", "E", "S", "I", "S">>

AnalyticalFramework ==
    <<"A", "N", "A", "L", "Y", "T", "I", "C", "A", "L", " ", "F", "R", "A", "M", "E",
    "W", "O", "R", "K">>

MarketPositioning ==
    <<"M", "A", "R", "K", "E", "T", " ", "&", " ", "I", "N", "T", "E", "L", "L", "E",
    "C", "T", "U", "A", "L", " ", "P", "O", "S", "I", "T", "I", "O", "N", "I", "N",
    "G">>

STANDARD_SECTIONS == <<ExecutiveSummary, AnalyticalFramework, MarketPositioning>>

\* NAME_MAPPINGS, in the order of the dict.
NAME_MAPPINGS ==
    <<[k |-> <<"E", "X", "E", "C", "U", "T", "I", "V", "E", " ", "A", "N", "A", "L", "Y", "T", "I", "C", "A", "L", " ", "B", "R", "I", "E", "F">>,
       v |-> ExecutiveSummary],
      [k |-> <<"C", "O", "R", "E", " ", "T", "H", "E", "S", "I", "S", " ", "&", " ", "K", "E", "Y", " ", "A", "R", "G", "U", "M", "E", "N", "T", "S">>,
       v |-> ExecutiveSummary],
      [k |-> <<"R", "E", "P", "R", "E", "S", "E", "N", "T", "A", "T", "I", "V", "E", " ", "S", "Y", "N", "T", "H", "E", "S", "I", "S">>,
       v |-> ExecutiveSummary],
      [k |-> <<"C", "O", "N", "C", "E", "P", "T", "U", "A", "L", " ", "A", "R", "C", "H", "I", "T", "E", "C", "T", "U", "R", "E">>,
       v |-> AnalyticalFramework],
      [k |-> <<"G", "L", "O", "S", "S", "A", "R", "Y", " ", "O", "F", " ", "D", "E", "N", "S", "I", "T", "Y">>,
       v |-> AnalyticalFramework],
      [k |-> <<"R", "E", "A", "S", "O", "N", "I", "N", "G", " ", "B", "L", "U", "E", "P", "R", "I", "N", "T">>,
       v |-> AnalyticalFramework],
      [k |-> <<"C", "O", "M", "P", "A", "R", "A", "T", "I", "V", "E", " ", "P", "O", "S", "I", "T", "I", "O", "N", "I", "N", "G">>,
       v |-> MarketPositioning]>>

\* The keywords of the caps test of extract_sections (lines 72, 74).
HeaderKeywords ==
    {<<"E", "X", "E", "C", "U", "T", "I", "V", "E">>,
     <<"A", "N", "A", "L", "Y", "T", "I", "C", "A", "L">>,
     <<"M", "A", "R", "K", "E", "T">>,
     <<"T", "H", "E", "S", "I", "S">>,
     <<"G", "L", "O", "S", "S", "A", "R", "Y">>}

SkipKeywords ==
    {<<"S", "T", "R", "A", "T", "E", "G", "I", "C">>,
     <<"A", "C", "T", "I", "O", "N">>,
     <<"L", "I", "M", "I", "T", "A", "T", "I", "O", "N", "S">>,
     <<"C", "R", "I", "T", "I", "C", "A", "L">>}

\* str.lstrip('#')
RECURSIVE LStripHash(_)
LStripHash(t) == IF t # <<>> /\ Head(t) = "#" THEN LStripHash(Tail(t)) ELSE t

\* REGEX_PATTERNS['clean_header'].sub('', name): [^\w\s&] is removed.
HeaderChars == UpperLetters \cup LowerLetters \cup Whitespace \cup {"&", SmallJCaron}
CleanHeader(t) == SelectSeq(t, LAMBDA c : c \in HeaderChars)

\* REGEX_PATTERNS['normalize_space'].sub(' ', name): a run of \s becomes one space.
NormalizeSpace(t) ==
    LET first == SelectSeq([k \in 1..Len(t) |-> k],
                           LAMBDA k : t[k] \in Whitespace => (k = 1 \/ t[k - 1] \notin Whitespace))
    IN [j \in 1..Len(first) |-> IF t[first[j]] \in Whitespace THEN " " ELSE t[first[j]]]

\* The first mapping whose key contains base or is contained in it (lines 45-48).
RECURSIVE FirstOverlap(_, _, _)
FirstOverlap(mappings, base, k) ==
    IF k > Len(mappings) THEN None
    ELSE IF Contains(base, mappings[k].k) \/ Contains(mappings[k].k, base)
         THEN Some(mappings[k].v)
         ELSE FirstOverlap(mappings, base, k + 1)

\* summarizer_utils.normalize_section_name.  After clean_header no digit, dot or
\* parenthesis is left in a text of the model, so line 39 strips and
\* split('(')[0] keeps the whole name.
normalize_section_name(name, name_mappings) ==
    LET unhashed == IF name # <<>> /\ Head(name) = "#"
                    THEN Strip(LStripHash(name)) ELSE name
        clean == Strip(Upper(Strip(NormalizeSpace(CleanHeader(unhashed)))))
        base == Strip(clean)
        overlap == FirstOverlap(name_mappings, base, 1)
    IN IF DictHas(name_mappings, clean) THEN DictGet(name_mappings, clean)
       ELSE IF overlap.some THEN overlap.text
       ELSE clean

\* REGEX_PATTERNS['markdown'].match(s), s stripped: the captured group, if any.
\* One to three '#', then whitespace, then at least one character.
RECURSIVE LeadingHashes(_)
LeadingHashes(s) == IF s # <<>> /\ Head(s) = "#" THEN 1 + LeadingHashes(Tail(s)) ELSE 0
MarkdownMatch(s) ==
    LET h == Min(LeadingHashes(s), 3)
        rest == LStrip(SubSeq(s, h + 1, Len(s)))
    IN IF h = 0 THEN None
       ELSE IF rest # <<>> THEN Some(rest)
       ELSE IF h >= 2 THEN Some(<<"#">>)
       ELSE None

\* REGEX_PATTERNS['caps'].match(s): a capital, then nine or more of [A-Z\s&\-\(\)].
CapsMatch(s) ==
    /\ Len(s) >= 10
    /\ s[1] \in UpperLetters
    /\ \A k \in 2..Len(s) : s[k] \in UpperLetters \cup Whitespace \cup {"&", "-", "(", ")"}

HasKeyword(pot, keywords) == \E kw \in keywords : Contains(kw, pot)

\* The loop body of extract_sections for one line; st is the loop state
\* (sections, curr, buf).  The bold and numbered patterns need '*' or a digit,
\* which no text of the model has.
ExtractLine(st, line, name_mappings) ==
    LET s == Strip(line)
        md == MarkdownMatch(s)
        caps == ~md.some /\ Len(s) >= 10 /\ CapsMatch(s)
        match == IF md.some THEN md
                 ELSE IF caps /\ HasKeyword(s, HeaderKeywords) THEN Some(s)
                 ELSE None
        flushed == IF st.curr.some
                   THEN DictSet(st.sections, st.curr.text, Strip(Join(st.buf, <<"\n">>)))
                   ELSE st.sections
    IN IF s = <<>> THEN
           IF st.curr.some THEN [st EXCEPT !.buf = Append(@, line)] ELSE st
       ELSE IF caps /\ HasKeyword(s, SkipKeywords) THEN st
       ELSE IF match.some THEN
           [sections |-> flushed,
            curr |-> Some(normalize_section_name(Strip(match.text), name_mappings)),
            buf |-> <<>>]
       ELSE IF st.curr.some THEN [st EXCEPT !.buf = Append(@, line)]
       ELSE st

RECURSIVE ExtractLines(_, _, _, _)
ExtractLines(st, lines, k, name_mappings) ==
    IF k > Len(lines) THEN st
    ELSE ExtractLines(ExtractLine(st, lines[k], name_mappings), lines, k + 1,
                      name_mappings)

\* summarizer_utils.extract_sections
extract_sections(content, name_mappings) ==
    LET st == ExtractLines([sections |-> <<>>, curr |-> None, buf |-> <<>>],
                           Split(content, "\n"), 1, name_mappings)
    IN IF st.curr.some /\ st.buf # <<>>
       THEN DictSet(st.sections, st.curr.text, Strip(Join(st.buf, <<"\n">>)))
       ELSE st.sections

\* The values of the items of d whose normalized key is norm, in order.
RECURSIVE ValuesNormalizedTo(_, _, _)
ValuesNormalizedTo(d, norm, k) ==
    IF k > Len(d) THEN <<>>
    ELSE (IF normalize_section_name(d[k].k, NAME_MAPPINGS) = norm
          THEN <<d[k].v>> ELSE <<>>) \o ValuesNormalizedTo(d, norm, k + 1)

\* BookSummarizer._match_section_in_draft
match_section_in_draft(target, draft_sections) ==
    LET norm_target == normalize_section_name(target, NAME_MAPPINGS)
        potential_sources ==
            SelectSeq(NAME_MAPPINGS,
                      LAMBDA m : normalize_section_name(m.v, NAME_MAPPINGS) = norm_target)
        RECURSIVE Found(_)
        Found(k) ==
            IF k > Len(potential_sources) THEN <<>>
            ELSE ValuesNormalizedTo(
                     draft_sections,
                     normalize_section_name(potential_sources[k].k, NAME_MAPPINGS), 1)
                 \o Found(k + 1)
        found_contents == Found(1)
        last == ValuesNormalizedTo(draft_sections, norm_target, 1)
    IN IF DictHas(draft_sections, target) THEN Some(DictGet(draft_sections, target))
       ELSE IF found_contents # <<>> THEN Some(Join(found_contents, <<"\n", "\n">>))
       ELSE IF last # <<>> THEN Some(last[1])
       ELSE None

-----------------------------------------------------------------------------
(* normalize_section_name and extract_sections on their own *)

\* The headings given to normalize_section_name: the standard names, the
\* aliases, and names that are neither (a short one that is part of an alias,
\* the empty one, mixed case, capitals with a keyword of the caps test, capitals
\* with a keyword to skip, and a letter outside ASCII), each plain or as a
\* markdown heading, with or without a colon.
HeadingCores ==
    {STANDARD_SECTIONS[s] : s \in 1..Len(STANDARD_SECTIONS)}
        \cup {NAME_MAPPINGS[m].k : m \in 1..Len(NAME_MAPPINGS)}
        \cup {<<"E">>, <<>>, <<"I", "n", "t", "r", "o">>,
              <<"M", "A", "R", "K", "E", "T", " ", "N", "O", "T", "E", "S">>,
              <<"C", "R", "I", "T", "I", "C", "A", "L", " ", "M", "A", "R", "K", "E", "T">>,
              <<SmallJCaron, "o", "b">>}
HeadingPrefixes == {<<>>, <<"#", " ">>, <<"#", "#", " ">>}
HeadingSuffixes == {<<>>, <<":">>}
Headings ==
    {pre \o core \o suf : pre \in HeadingPrefixes, core \in HeadingCores,
                          suf \in HeadingSuffixes}

\* The text under a heading, and what may follow it: nothing, or a second
\* section under a standard name.
Bodies == {<<>>, <<"\n", "x">>, <<"\n", "x", "\n", "\n", "y">>}
Followers == {<<>>, <<"\n", "#", "#", " ">> \o AnalyticalFramework \o <<"\n", "z">>}

NamesInit ==
    /\ ConfigInit
    /\ provider = "Ollama" /\ refs = <<>>
    /\ drafts = <<>>
    /\ pc = "names"
    /\ heading \in Headings
    /\ normalized = <<>> /\ renormalized = <<>>
    /\ document = <<>> /\ section_map = <<>>
    /\ IterIdle
    /\ TournIdle
    /\ SynthIdle
    /\ SectionIdle
    /\ EndpointIdle
    /\ PricingIdle
    /\ StreamIdle

\* normalize_section_name(heading, NAME_MAPPINGS)
NormalizeHeading ==
    /\ pc = "names"
    /\ normalized' = normalize_section_name(heading, NAME_MAPPINGS)
    /\ pc' = "normalized"
    /\ UNCHANGED <<provider, has_client, refs, events, result, usage_total, calls,
                   call_usage, drafts, iterVars, tournVars, synthVars, sectionVars, endpointVars, pricingVars, emitted, heading,
                   renormalized, document, section_map>>

\* normalize_section_name of the result of normalize_section_name
NormalizeAgain ==
    /\ pc = "normalized"
    /\ renormalized' = normalize_section_name(normalized, NAME_MAPPINGS)
    /\ pc' = "renormalized"
    /\ UNCHANGED <<provider, has_client, refs, events, result, usage_total, calls,
                   call_usage, drafts, iterVars, tournVars, synthVars, sectionVars, endpointVars, pricingVars, emitted, heading,
                   normalized, document, section_map>>

\* extract_sections(document, NAME_MAPPINGS) of a draft with the heading on a
\* line of its own.
ExtractSections ==
    /\ pc = "names"
    /\ \E lead \in {<<>>, <<"p", "\n">>}, body \in Bodies, follower \in Followers :
         LET text == lead \o heading \o body \o follower IN
         /\ document' = text
         /\ section_map' = extract_sections(text, NAME_MAPPINGS)
    /\ pc' = "extracted"
    /\ UNCHANGED <<provider, has_client, refs, events, result, usage_total, calls,
                   call_usage, drafts, iterVars, tournVars, synthVars, sectionVars, endpointVars, pricingVars, emitted, heading,
                   normalized, renormalized>>

NamesNext == NormalizeHeading \/ NormalizeAgain \/ ExtractSections

SpecSectionNames == NamesInit /\ [][NamesNext]_vars

-----------------------------------------------------------------------------
(* calculate_draft_diversity: summarizer_utils.py, difflib.SequenceMatcher *)

\* "samples = [d[:1000] for d in drafts]"
SampleLen == 1000
Sample(d) == SubSeq(d, 1, Min(Len(d), SampleLen))

\* The length of the common run of a from i and b from j, inside a[..ahi], b[..bhi].
RECURSIVE RunLen(_, _, _, _, _, _)
RunLen(a, i2, ahi, b, j2, bhi) ==
    IF i2 <= ahi /\ j2 <= bhi /\ a[i2] = b[j2]
    THEN 1 + RunLen(a, i2 + 1, ahi, b, j2 + 1, bhi)
    ELSE 0

\* SequenceMatcher.find_longest_match on a[alo..ahi] and b[blo..bhi] (texts
\* under 200 characters, for which difflib marks no character as popular): a
\* longest common block, the earliest in a and, of those, the earliest in b.
find_longest_match(a, alo, ahi, b, blo, bhi) ==
    LET starts == (alo..ahi) \X (blo..bhi)
        run == [st \in starts |-> RunLen(a, st[1], ahi, b, st[2], bhi)]
        longest == IF starts = {} THEN 0
                   ELSE CHOOSE k \in {run[st] : st \in starts} :
                            \A st \in starts : run[st] <= k
    IN IF longest = 0 THEN [a |-> alo, b |-> blo, size |-> 0]
       ELSE LET best == {st \in starts : run[st] = longest}
                fa == CHOOSE x \in {st[1] : st \in best} :
                          \A st \in best : x <= st[1]
                fb == CHOOSE y \in {st[2] : st \in {t \in best : t[1] = fa}} :
                          \A st \in best : st[1] = fa => y <= st[2]
            IN [a |-> fa, b |-> fb, size |-> longest]

\* The summed size of SequenceMatcher.get_matching_blocks: the longest block,
\* then the blocks to its left and to its right.
RECURSIVE Matches(_, _, _, _, _, _)
Matches(a, alo, ahi, b, blo, bhi) ==
    IF alo > ahi \/ blo > bhi THEN 0
    ELSE LET m == find_longest_match(a, alo, ahi, b, blo, bhi)
         IN IF m.size = 0 THEN 0
            ELSE m.size + Matches(a, alo, m.a - 1, b, blo, m.b - 1)
                        + Matches(a, m.a + m.size, ahi, b, m.b + m.size, bhi)

\* SequenceMatcher(None, a, b).ratio() as a fraction: 2 * matches / (la + lb),
\* and 1 when both texts are empty.
Ratio(a, b) ==
    IF Len(a) + Len(b) = 0 THEN [num |-> 1, den |-> 1]
    ELSE [num |-> 2 * Matches(a, 1, Len(a), b, 1, Len(b)), den |-> Len(a) + Len(b)]

AddFraction(x, y) == [num |-> x.num * y.den + y.num * x.den, den |-> x.den * y.den]

\* round(p / q, 0) for p >= 0 and q > 0, halves to the even neighbour.
RoundHalfEven(p, q) ==
    LET lo == p \div q
        rest == p % q
    IN IF 2 * rest < q THEN lo
       ELSE IF 2 * rest > q THEN lo + 1
       ELSE IF lo % 2 = 0 THEN lo ELSE lo + 1

\* The pairs (i, j), i < j, of the double loop, in its order.
Pairs(len) ==
    LET ps == {pr \in (1..len) \X (1..len) : pr[1] < pr[2]}
        RECURSIVE InOrder(_)
        InOrder(rest) ==
            IF rest = {} THEN <<>>
            ELSE LET first == CHOOSE pr \in rest :
                                  \A o \in rest : pr[1] < o[1]
                                      \/ (pr[1] = o[1] /\ pr[2] <= o[2])
                 IN <<first>> \o InOrder(rest \ {first})
    IN InOrder(ps)

RECURSIVE SumRatios(_, _, _)
SumRatios(samples, pairs, k) ==
    IF k > Len(pairs) THEN [num |-> 0, den |-> 1]
    ELSE AddFraction(Ratio(samples[pairs[k][1]], samples[pairs[k][2]]),
                     SumRatios(samples, pairs, k + 1))

\* A score that is the mean similarity itself, not one minus it.
MeanSimilarity(ds) ==
    IF Len(ds) < 2 THEN 0
    ELSE LET samples == [k \in 1..Len(ds) |-> Sample(ds[k])]
             pairs == Pairs(Len(samples))
             tot == SumRatios(samples, pairs, 1)
             cnt == Len(pairs)
         IN RoundHalfEven(1000 * tot.num, cnt * tot.den)

\* calculate_draft_diversity(drafts)["diversity_score"], in thousandths:
\* round(1 - tot / cnt, 3).
calculate_draft_diversity(ds) ==
    IF Len(ds) < 2 THEN 0
    ELSE LET samples == [k \in 1..Len(ds) |-> Sample(ds[k])]
             pairs == Pairs(Len(samples))
             tot == SumRatios(samples, pairs, 1)
             cnt == Len(pairs)
         IN RoundHalfEven(1000 * (cnt * tot.den - tot.num), cnt * tot.den)

\* The drafts of the model: short texts with blocks in common on either side
\* of the longest one, texts with nothing in common, and the empty text.
DiversityTexts ==
    {<<>>, <<"a", "b">>, <<"b", "a">>, <<"x", "y">>,
     <<"a", "b", "c", "a", "b">>, <<"c", "a", "b", "x", "a">>}
DiversityDrafts == UNION {[1..k -> DiversityTexts] : k \in 0..MaxDrafts}

DiversityInit ==
    /\ ConfigInit
    /\ provider = "Ollama" /\ refs = <<>>
    /\ drafts \in DiversityDrafts
    /\ pc = "diversity"
    /\ IterIdle
    /\ TournIdle
    /\ SynthIdle
    /\ NamesIdle
    /\ SectionIdle
    /\ EndpointIdle
    /\ PricingIdle
    /\ StreamIdle

\* calculate_draft_diversity(drafts)
CalculateDiversity ==
    /\ pc = "diversity"
    /\ diversity_score' = calculate_draft_diversity(drafts)
    /\ pc' = "scored"
    /\ UNCHANGED <<provider, has_client, refs, events, result, usage_total, calls,
                   call_usage, drafts, iterVars, tournVars, synthVars, nameVars,
                   sectionVars, pricingVars, emitted, selected, http_status>>

DiversityNext == CalculateDiversity

SpecDiversity == DiversityInit /\ [][DiversityNext]_vars

-----------------------------------------------------------------------------
(* _synthesize_section and summarize_synthesize *)

\* The largest self.max_retries of the model (the constructor's default is 3).
MaxRetries == 2

\* "if len(content) < 500" of summarize_synthesize.
RescueFloor == 500

\* The length of the long texts of the model: one long text with the label or
\* with a heading stays under the floor, two do not.
LongLen == RescueFloor \div 2 - 19

\* "# SYNTHETIC CONSOLIDATION (FALLBACK)\n\n"
RescueLabel ==
    <<"#", " ", "S", "Y", "N", "T", "H", "E", "T", "I", "C", " ", "C", "O", "N", "S",
      "O", "L", "I", "D", "A", "T", "I", "O", "N", " ", "(", "F", "A", "L", "L", "B",
      "A", "C", "K", ")", "\n", "\n">>

\* The drafts handed to summarize_synthesize: a short one with the section
\* ANALYTICAL FRAMEWORK, a long one without a heading, and one whose headings
\* are aliases, the first of them with an empty body.
SectionDraft == <<"#", "#", " ">> \o AnalyticalFramework \o <<"\n", "a", "b">>
LongDraft == Rep("a", LongLen)
AliasDraft ==
    <<"#", "#", " ">> \o NAME_MAPPINGS[5].k \o <<"\n", "\n">>
        \o <<"#", "#", " ">> \o NAME_MAPPINGS[7].k \o <<"\n", "m">>
SynthDraftTexts == {SectionDraft, LongDraft, AliasDraft}
SynthDraftLists ==
    UNION {[1..k -> SynthDraftTexts] : k \in 0..MaxDrafts}

\* The contents a section call can return.
SectionContents ==
    {None, Some(<<>>), Some(<<" ">>), Some(<<"a">>), Some(Rep("b", LongLen))}
SectionUsages == {Usage(2, 1)}
SectionReplies(prov) ==
    [kind : {"ok"}, content : SectionContents, usage : SectionUsages]
        \cup [kind : IF prov = "Ollama" THEN {"raise", "http_error"} ELSE {"raise"},
              content : {None}, usage : {ZeroUsage}]

\* What the message of a raised exception is taken for (lines 195-209).
ErrorKinds == {"rate", "timeout", "context", "generic"}

\* A collection that also keeps the empty fragments.
RECURSIVE SectionContentsKeepEmpty(_, _, _)
SectionContentsKeepEmpty(section_name, all_sections_data, k) ==
    IF k > Len(all_sections_data) THEN <<>>
    ELSE LET matched == match_section_in_draft(section_name, all_sections_data[k])
         IN (IF matched.some THEN <<matched.text>> ELSE <<>>)
            \o SectionContentsKeepEmpty(section_name, all_sections_data, k + 1)

\* The fragments of the drafts for a section (lines 235-241).
RECURSIVE SectionContentsFrom(_, _, _)
SectionContentsFrom(section_name, all_sections_data, k) ==
    IF k > Len(all_sections_data) THEN <<>>
    ELSE LET matched == match_section_in_draft(section_name, all_sections_data[k])
         IN (IF matched.some /\ matched.text # <<>> THEN <<matched.text>> ELSE <<>>)
            \o SectionContentsFrom(section_name, all_sections_data, k + 1)

\* Line 248: the sources of a task are the fragments found or, when there is
\* none, the whole drafts.  A task of the model keeps its fragments, and its
\* sources are read through context_source.
context_source(task, ds) == IF task.use_full_context THEN ds ELSE task.contents

\* Lines 231-253: one task per standard section.
BuildSectionTasks(ds) ==
    LET all_sections_data == [k \in 1..Len(ds) |-> extract_sections(ds[k], NAME_MAPPINGS)]
    IN [s \in 1..Len(STANDARD_SECTIONS) |->
          LET section_contents ==
                  SectionContentsFrom(STANDARD_SECTIONS[s], all_sections_data, 1)
          IN [name |-> STANDARD_SECTIONS[s],
              contents |-> section_contents,
              use_full_context |-> Len(section_contents) = 0,
              st |-> "ready", i |-> 0, called |-> FALSE]]

\* A loop that treats a context-length failure like any other failure.
SynthesizeSectionRetryContext(prov, reply, kind, pass, retries) ==
    IF prov = "Ollama" THEN [returns |-> TRUE, res |-> summarize_ollama(reply)]
    ELSE IF reply.kind = "ok" THEN
        IF ~reply.content.some \/ Strip(reply.content.text) = <<>>
        THEN [returns |-> TRUE, res |-> ErrorResult]
        ELSE [returns |-> TRUE,
              res |-> ContentResult(Some(clean_output(reply.content.text)), reply.usage)]
    ELSE [returns |-> pass = retries - 1, res |-> ErrorResult]

\* One pass of the loop of _synthesize_section after its call: whether the
\* function returns, and what.  A raised exception is retried unless its message
\* speaks of context or length (break) or the pass is the last.
synthesize_section(prov, reply, kind, pass, retries) ==
    IF prov = "Ollama" THEN [returns |-> TRUE, res |-> summarize_ollama(reply)]
    ELSE IF reply.kind = "ok" THEN
        IF ~reply.content.some \/ Strip(reply.content.text) = <<>>
        THEN [returns |-> TRUE, res |-> ErrorResult]
        ELSE [returns |-> TRUE,
              res |-> ContentResult(Some(clean_output(reply.content.text)), reply.usage)]
    ELSE [returns |-> kind = "context" \/ pass = retries - 1, res |-> ErrorResult]

\* normalize_section_name(name, NAME_MAPPINGS); the names of the standard
\* sections are normalized once.
StandardNormalized ==
    [s \in 1..Len(STANDARD_SECTIONS) |->
        normalize_section_name(STANDARD_SECTIONS[s], NAME_MAPPINGS)]
NormalizedName(name) ==
    IF \E s \in 1..Len(STANDARD_SECTIONS) : STANDARD_SECTIONS[s] = name
    THEN StandardNormalized[CHOOSE s \in 1..Len(STANDARD_SECTIONS) :
                               STANDARD_SECTIONS[s] = name]
    ELSE normalize_section_name(name, NAME_MAPPINGS)

\* Lines 311-320: the document rebuilt in the order of STANDARD_SECTIONS.
RECURSIVE BestKey(_, _, _)
BestKey(sections, std_name, k) ==
    IF k > Len(sections) THEN None
    ELSE IF NormalizedName(sections[k].k) = NormalizedName(std_name)
         THEN Some(sections[k].k)
         ELSE BestKey(sections, std_name, k + 1)

RECURSIVE FinalParts(_, _)
FinalParts(sections, s) ==
    IF s > Len(STANDARD_SECTIONS) THEN <<>>
    ELSE LET best_key == BestKey(sections, STANDARD_SECTIONS[s], 1)
         IN (IF best_key.some /\ best_key.text # <<>>
             THEN <<<<"#", "#", " ">> \o STANDARD_SECTIONS[s],
                    DictGet(sections, best_key.text), <<>>>>
             ELSE <<>>) \o FinalParts(sections, s + 1)

\* A document rebuilt in the order in which the sections were received.
RECURSIVE ArrivalParts(_, _)
ArrivalParts(sections, k) ==
    IF k > Len(sections) THEN <<>>
    ELSE <<<<"#", "#", " ">> \o sections[k].k, sections[k].v, <<>>>>
             \o ArrivalParts(sections, k + 1)
ReconstructInArrivalOrder(sections) == Strip(Join(ArrivalParts(sections, 1), <<"\n">>))

Reconstruct(sections) == Strip(Join(FinalParts(sections, 1), <<"\n">>))

\* Line 335: the label, then the first two drafts joined by a blank line.
RescueAllDrafts(ds) == RescueLabel \o Join(ds, <<"\n", "\n">>)
RescuePayload(ds) ==
    RescueLabel \o Join(SubSeq(ds, 1, Min(2, Len(ds))), <<"\n", "\n">>)

\* Lines 320-335: the content of the done event.
SynthContent(sections, references, ds) ==
    LET content == Reconstruct(sections) \o references
    IN IF Len(content) < RescueFloor THEN RescuePayload(ds) ELSE content

SynthInit ==
    /\ ConfigInit
    /\ drafts \in SynthDraftLists
    /\ pc = "start"
    /\ max_retries \in 1..MaxRetries
    /\ section_tasks = <<>> /\ synthesized_sections = <<>>
    /\ errors_count = 0 /\ clock = 0
    /\ IterIdle
    /\ TournIdle
    /\ NamesIdle
    /\ SectionIdle
    /\ EndpointIdle
    /\ PricingIdle
    /\ StreamIdle

\* Lines 223-283: no drafts is an error; else the tasks are built and started.
SynthStart ==
    /\ pc = "start"
    /\ IF drafts = <<>> THEN
           /\ events' = Append(events, "error")
           /\ result' = [NoResult EXCEPT !.kind = "error", !.msg = "no_drafts"]
           /\ pc' = "end"
           /\ UNCHANGED section_tasks
       ELSE
           /\ events' = Append(events, "status")
           /\ section_tasks' = BuildSectionTasks(drafts)
           /\ pc' = "synthesizing"
           /\ UNCHANGED result
    /\ UNCHANGED <<provider, has_client, refs, usage_total, calls, call_usage, drafts,
                   iterVars, tournVars, max_retries, helperVars, synthesized_sections,
                   errors_count, clock>>

\* A receive loop that keeps an entry, with no content, for a failed section.
ReceivedStoresFailed(s, res) ==
    /\ IF res.error THEN
           /\ errors_count' = errors_count + 1
           /\ synthesized_sections' =
                  DictSet(synthesized_sections, section_tasks[s].name, <<>>)
           /\ UNCHANGED usage_total
       ELSE
           /\ synthesized_sections' =
                  DictSet(synthesized_sections, section_tasks[s].name, res.content.text)
           /\ usage_total' = AddUsage(usage_total, res.usage)
           /\ UNCHANGED errors_count
    /\ events' = Append(events, "status")

\* A receive loop that keeps the usage of the last successful result only.
ReceivedKeepsLastUsage(s, res) ==
    /\ IF res.error THEN
           /\ errors_count' = errors_count + 1
           /\ UNCHANGED <<synthesized_sections, usage_total>>
       ELSE
           /\ synthesized_sections' =
                  DictSet(synthesized_sections, section_tasks[s].name, res.content.text)
           /\ usage_total' = res.usage
           /\ UNCHANGED errors_count
    /\ events' = Append(events, "status")

\* The orchestrator receives the result of task s (lines 290-307).
Received(s, res) ==
    /\ IF res.error THEN
           /\ errors_count' = errors_count + 1
           /\ UNCHANGED <<synthesized_sections, usage_total>>
       ELSE
           /\ synthesized_sections' =
                  DictSet(synthesized_sections, section_tasks[s].name, res.content.text)
           /\ usage_total' = AddUsage(usage_total, res.usage)
           /\ UNCHANGED errors_count
    /\ events' = Append(events, "status")

\* _synthesize_section without a client (line 168): no call is made.
SectionNoClient(s) ==
    /\ pc = "synthesizing"
    /\ section_tasks[s].st = "ready"
    /\ provider # "Ollama" /\ ~has_client
    /\ section_tasks' = [section_tasks EXCEPT ![s].st = "done"]
    /\ Received(s, ErrorResult)
    /\ UNCHANGED <<provider, has_client, refs, pc, result, calls, call_usage, drafts,
                   iterVars, tournVars, max_retries, helperVars, clock>>

\* A pass of _synthesize_section enters its call (lines 162-175): the client's
\* call is made with self._client_lock held.
SectionCall(s) ==
    /\ pc = "synthesizing"
    /\ section_tasks[s].st = "ready"
    /\ IF provider = "Ollama" THEN UNCHANGED client_lock
       ELSE has_client /\ ~client_lock /\ client_lock' = TRUE
    /\ section_tasks' = [section_tasks EXCEPT ![s].st = "calling", ![s].called = TRUE]
    /\ UNCHANGED <<provider, has_client, refs, pc, events, result, usage_total, calls,
                   call_usage, drafts, iterVars, n, n_queued, n_started, n_calling,
                   drafts_failed, ok_usage, judge_reply, attempt, max_retries, helperVars,
                   synthesized_sections, errors_count, clock>>

\* A task whose failed result is never sent: the task ends without a send and
\* the receive loop keeps waiting for its result.
SectionReturnDropsError(s) ==
    /\ pc = "synthesizing"
    /\ section_tasks[s].st = "calling"
    /\ \E reply \in SectionReplies(provider), kind \in ErrorKinds :
         LET step == synthesize_section(provider, reply, kind, section_tasks[s].i,
                                        max_retries)
         IN
         /\ reply.kind = "ok" => kind = "generic"
         /\ IF step.returns /\ ~step.res.error THEN
                /\ section_tasks' = [section_tasks EXCEPT ![s].st = "done", ![s].i = 0]
                /\ Received(s, step.res)
            ELSE
                /\ section_tasks' =
                       [section_tasks EXCEPT
                           ![s].st = IF step.returns THEN "lost" ELSE "ready",
                           ![s].i = @ + 1]
                /\ UNCHANGED <<synthesized_sections, usage_total, errors_count, events>>
    /\ client_lock' = IF provider = "Ollama" THEN client_lock ELSE FALSE
    /\ UNCHANGED <<provider, has_client, refs, pc, result, calls, call_usage, drafts,
                   iterVars, n, n_queued, n_started, n_calling, drafts_failed,
                   ok_usage, judge_reply, attempt, max_retries, helperVars, clock>>

\* The call of task s returns or raises (lines 176-214); the lock is released.
\* The task either takes another pass or hands its result to the orchestrator.
SectionReturn(s) ==
    /\ pc = "synthesizing"
    /\ section_tasks[s].st = "calling"
    /\ \E reply \in SectionReplies(provider), kind \in ErrorKinds :
         LET step == synthesize_section(provider, reply, kind, section_tasks[s].i,
                                        max_retries)
         IN
         /\ reply.kind = "ok" => kind = "generic"
         /\ IF step.returns THEN
                /\ section_tasks' = [section_tasks EXCEPT ![s].st = "done", ![s].i = 0]
                /\ Received(s, step.res)
            ELSE
                /\ section_tasks' = [section_tasks EXCEPT ![s].st = "ready",
                                                          ![s].i = @ + 1]
                /\ UNCHANGED <<synthesized_sections, usage_total, errors_count, events>>
    /\ client_lock' = IF provider = "Ollama" THEN client_lock ELSE FALSE
    /\ UNCHANGED <<provider, has_client, refs, pc, result, calls, call_usage, drafts,
                   iterVars, n, n_queued, n_started, n_calling, drafts_failed,
                   ok_usage, judge_reply, attempt, max_retries, helperVars, clock>>

\* Lines 309-344: every result is in; the document is rebuilt and the done
\* event is sent.
SynthFinish ==
    /\ pc = "synthesizing"
    /\ \A s \in 1..Len(section_tasks) : section_tasks[s].st = "done"
    /\ events' = Append(events, "done")
    /\ result' = [NoResult EXCEPT
                     !.kind = "done",
                     !.content = SynthContent(synthesized_sections, refs, drafts),
                     !.usage = usage_total,
                     !.draft_count = Len(drafts)]
    /\ pc' = "end"
    /\ UNCHANGED <<provider, has_client, refs, usage_total, calls, call_usage, drafts,
                   iterVars, tournVars, synthVars, helperVars>>

SynthNext ==
    \/ SynthStart
    \/ \E s \in 1..Len(section_tasks) : SectionNoClient(s)
    \/ \E s \in 1..Len(section_tasks) : SectionCall(s)
    \/ \E s \in 1..Len(section_tasks) : SectionReturn(s)
    \/ SynthFinish

SpecSynthesize == SynthInit /\ [][SynthNext]_vars

\* The largest drafts list of the runs whose termination is checked.
MaxFairDrafts == 2

SynthFairInit == SynthInit /\ Len(drafts) <= MaxFairDrafts

\* The steps of the orchestrator's own coroutine, by its position: it leaves
\* the start, and it leaves the receive loop once every result is in.
SynthStarts == pc = "start" /\ pc' \in {"synthesizing", "end"}
SynthFinishes ==
    /\ pc = "synthesizing"
    /\ \A s \in 1..Len(section_tasks) : section_tasks[s].st = "done"
    /\ pc' = "end"

\* A step of section task s.
SectionStep(s) == SectionNoClient(s) \/ SectionCall(s) \/ SectionReturn(s)

\* The event loop resumes the orchestrator when it can go on; the worker thread
\* of a task (anyio.to_thread.run_sync) enters its call once self._client_lock
\* is free for it, every generation call returns or raises, and a result that
\* is sent is received, the orchestrator being in its receive loop.
SpecSynthesizeFair ==
    /\ SynthFairInit /\ [][SynthNext]_vars
    /\ WF_pc(SynthStarts) /\ WF_pc(SynthFinishes)
    /\ \A s \in 1..Len(STANDARD_SECTIONS) : WF_vars(SectionStep(s))

-----------------------------------------------------------------------------
(* One invocation of _synthesize_section *)

\* The largest self.max_retries of an invocation on its own: the default of
\* the constructor, which main.py never overrides.
MaxSectionRetries == 3

\* Lines 193-209: the error_type the except clause gives a failure.
ErrorTypeOf(kind) ==
    CASE kind = "rate" -> "RateLimitError"
      [] kind = "timeout" -> "TimeoutError"
      [] kind = "context" -> "ContextLengthError"
      [] OTHER -> "GenericError"

\* Lines 195-209: the seconds the except clause sleeps after a failure.
SleepOf(kind) ==
    CASE kind = "rate" -> 5
      [] kind = "timeout" -> 2
      [] kind = "context" -> 0
      [] OTHER -> 1

\* The "error_type" of the dict a pass returns ("" when the dict has none):
\* _summarize_ollama's dicts have none (lines 148, 155), an empty completion
\* gives EmptyContent (line 183), the last pass gives the type of its failure
\* (line 212), and the loop left by break gives Unknown (line 214).
section_error_type(prov, reply, kind, pass, retries) ==
    IF prov = "Ollama" THEN ""
    ELSE IF reply.kind = "ok" THEN
        IF ~reply.content.some \/ Strip(reply.content.text) = <<>>
        THEN "EmptyContent" ELSE ""
    ELSE IF kind = "context" THEN "Unknown"
    ELSE ErrorTypeOf(kind)

\* What an attempt was: "" for a completion with content, "empty" for one
\* without, else what the message of the exception is taken for.
FailureOf(prov, reply, kind) ==
    IF prov = "Ollama" THEN (IF summarize_ollama(reply).error THEN kind ELSE "")
    ELSE IF reply.kind = "ok" THEN
        (IF ~reply.content.some \/ Strip(reply.content.text) = <<>>
         THEN "empty" ELSE "")
    ELSE kind

SectionInit ==
    /\ ConfigInit
    /\ refs = <<>>
    /\ drafts = <<>>
    /\ pc = "section"
    /\ max_retries \in 1..MaxSectionRetries
    /\ section_tasks = <<>> /\ synthesized_sections = <<>>
    /\ errors_count = 0 /\ clock = 0
    /\ loop_i = 0 /\ sleeps = <<>> /\ failures = <<>>
    /\ section_result = NoSectionResult
    /\ IterIdle
    /\ TournIdle
    /\ NamesIdle
    /\ EndpointIdle
    /\ PricingIdle
    /\ StreamIdle

\* Line 168: a provider with a client that was never built returns at once.
SectionAttemptNoClient ==
    /\ pc = "section"
    /\ provider # "Ollama" /\ ~has_client
    /\ section_result' = [NoSectionResult EXCEPT !.error = TRUE,
                                                 !.error_type = "ClientError"]
    /\ pc' = "returned"
    /\ UNCHANGED <<provider, has_client, refs, events, result, usage_total, calls,
                   call_usage, drafts, iterVars, tournVars, synthVars, nameVars,
                   loop_i, sleeps, failures, endpointVars, pricingVars, emitted>>

\* Lines 160-214: one pass of the loop: the call, then the return of a dict,
\* or the sleep of the except clause and the next pass.
SectionAttempt ==
    /\ pc = "section"
    /\ provider = "Ollama" \/ has_client
    /\ \E reply \in SectionReplies(provider), kind \in ErrorKinds :
         LET step == synthesize_section(provider, reply, kind, loop_i, max_retries)
             failure == FailureOf(provider, reply, kind)
             slept == IF provider = "Ollama" \/ reply.kind = "ok" THEN 0
                      ELSE SleepOf(kind)
         IN
         /\ reply.kind = "ok" => kind = "generic"
         /\ calls' = Append(calls, "section")
         /\ call_usage' = AddUsage(call_usage, reply.usage)
         /\ IF failure = "" THEN UNCHANGED <<failures, sleeps>>
            ELSE /\ failures' = Append(failures, failure)
                 /\ sleeps' = Append(sleeps, slept)
         /\ IF step.returns THEN
                /\ section_result' =
                       [error |-> step.res.error,
                        error_type |-> section_error_type(provider, reply, kind,
                                                          loop_i, max_retries),
                        content |-> step.res.content,
                        usage |-> step.res.usage]
                /\ pc' = "returned"
                /\ UNCHANGED loop_i
            ELSE
                /\ loop_i' = loop_i + 1
                /\ UNCHANGED <<section_result, pc>>
    /\ UNCHANGED <<provider, has_client, refs, events, result, usage_total, drafts,
                   iterVars, tournVars, synthVars, nameVars, endpointVars,
                   pricingVars, emitted>>

SectionNext == SectionAttemptNoClient \/ SectionAttempt

SpecSection == SectionInit /\ [][SectionNext]_vars

-----------------------------------------------------------------------------
(* main.py: synthesize_summaries, the handler of POST /api/synthesize *)

\* The attributes a BookSummarizer has that the handlers of main.py look up:
\* the methods of the class (summarizer.py, "def" lines 30-1520).
BookSummarizerMethods ==
    {"__init__", "_initialize_client", "_verify_ollama_connection",
     "_extract_metadata", "_get_full_prompt", "_summarize_ollama",
     "_synthesize_section", "summarize_synthesize", "_match_section_in_draft",
     "_generate_references_markdown", "_extract_perplexity_citations",
     "_calculate_cost", "_get_pricing_info", "summarize",
     "_evaluate_search_relevance", "summarize_stream", "_stream_ollama",
     "elaborate", "summarize_tournament", "summarize_tournament_stream",
     "summarize_iterative_stream", "_evaluate_draft_quality", "_run_completion"}

\* The name main.py line 268 looks up on the summarizer.
DiversityMethod == "_calculate_draft_diversity"

\* The stored summaries a request can select: their book and their content.
MaxSelected == 3
Books == {1, 2}
StoredContents == {<<>>, <<" ">>, <<" ", "a", "b">>, SectionDraft}
Selections ==
    UNION {[1..k -> [book : Books, content : StoredContents]] : k \in 0..MaxSelected}

\* Lines 221-228: the stripped content of every selected summary.
StrippedDrafts(sel) == [k \in 1..Len(sel) |-> Strip(sel[k].content)]

\* Lines 218-256: the status the validations answer with, 0 when they pass.
ValidationStatus(sel) ==
    IF \E k \in 1..Len(sel) : Strip(sel[k].content) = <<>> THEN 400
    ELSE IF Len(sel) = 0 THEN 404
    ELSE IF Cardinality({sel[k].book : k \in 1..Len(sel)}) > 1 THEN 400
    ELSE IF Len(sel) < 2 THEN 400
    ELSE 0

EndpointInit ==
    /\ ConfigInit
    /\ refs = <<>>
    /\ drafts = <<>>
    /\ pc = "request"
    /\ selected \in Selections
    /\ http_status = 0 /\ diversity_score = -1
    /\ IterIdle
    /\ TournIdle
    /\ SynthIdle
    /\ NamesIdle
    /\ SectionIdle
    /\ PricingIdle
    /\ StreamIdle

\* Lines 208-256: the drafts are collected and the request is validated.
EndpointValidate ==
    /\ pc = "request"
    /\ LET status == ValidationStatus(selected) IN
       IF status # 0 THEN
           /\ http_status' = status
           /\ pc' = "end"
           /\ UNCHANGED drafts
       ELSE
           /\ drafts' = StrippedDrafts(selected)
           /\ pc' = "validated"
           /\ UNCHANGED http_status
    /\ UNCHANGED <<provider, has_client, refs, events, result, usage_total, calls,
                   call_usage, iterVars, tournVars, synthVars, nameVars, sectionVars,
                   pricingVars, emitted, selected, diversity_score>>

\* Lines 258-290: the summarizer is built and its diversity method is looked
\* up and called; the streaming response of summarize_synthesize is returned.
\* A failed lookup raises AttributeError, which the server answers with 500.
EndpointDiversity ==
    /\ pc = "validated"
    /\ IF DiversityMethod \in BookSummarizerMethods THEN
           /\ diversity_score' = calculate_draft_diversity(drafts)
           /\ http_status' = 200
           /\ pc' = "start"
       ELSE
           /\ http_status' = 500
           /\ pc' = "end"
           /\ UNCHANGED diversity_score
    /\ UNCHANGED <<provider, has_client, refs, events, result, usage_total, calls,
                   call_usage, drafts, iterVars, tournVars, synthVars, nameVars,
                   sectionVars, pricingVars, emitted, selected>>

EndpointNext == EndpointValidate \/ EndpointDiversity

SpecSynthesizeEndpoint == EndpointInit /\ [][EndpointNext]_vars

-----------------------------------------------------------------------------
(* The fan-out in time: tasks that each make one call of a given latency *)

\* The tasks of the fan-out and the latencies of their calls: one slow call
\* among fast ones.
FanOut == 5
SlowTask == 3
SlowLatency == 5
FastLatency == 1
Latency(t) == IF t = SlowTask THEN SlowLatency ELSE FastLatency

TimedInit ==
    /\ ConfigInit
    /\ provider # "Ollama" => has_client
    /\ drafts = <<>>
    /\ pc = "fanout"
    /\ max_retries = 1
    /\ section_tasks = [t \in 1..FanOut |-> [st |-> "ready", left |-> 0]]
    /\ synthesized_sections = <<>>
    /\ errors_count = 0 /\ clock = 0
    /\ IterIdle
    /\ TournIdle
    /\ NamesIdle
    /\ SectionIdle
    /\ EndpointIdle
    /\ PricingIdle
    /\ StreamIdle

\* The thread of task t enters its call (anyio.to_thread.run_sync of
\* _synthesize_section): a client call waits for self._client_lock and holds
\* it until the call returns; an Ollama call takes no lock.
TimedCall(t) ==
    /\ pc = "fanout"
    /\ section_tasks[t].st = "ready"
    /\ IF provider = "Ollama" THEN UNCHANGED client_lock
       ELSE ~client_lock /\ client_lock' = TRUE
    /\ section_tasks' = [section_tasks EXCEPT ![t] = [st |-> "calling", left |-> Latency(t)]]
    /\ UNCHANGED <<commonVars, iterVars, n, n_queued, n_started, n_calling,
                   drafts_failed, ok_usage, judge_reply, attempt, max_retries, helperVars,
                   synthesized_sections, errors_count, clock>>

\* A thread that can enter its call does so before time passes.
CanCall(t) ==
    section_tasks[t].st = "ready" /\ (provider = "Ollama" \/ ~client_lock)

\* One unit of time passes for every call under way.
TimedTick ==
    /\ pc = "fanout"
    /\ \E t \in 1..FanOut : section_tasks[t].st = "calling"
    /\ \A t \in 1..FanOut :
         /\ ~CanCall(t)
         /\ section_tasks[t].st = "calling" => section_tasks[t].left > 0
    /\ clock' = clock + 1
    /\ section_tasks' =
           [t \in 1..FanOut |->
               IF section_tasks[t].st = "calling"
               THEN [section_tasks[t] EXCEPT !.left = @ - 1]
               ELSE section_tasks[t]]
    /\ UNCHANGED <<commonVars, iterVars, tournVars, max_retries, helperVars,
                   synthesized_sections, errors_count>>

\* The call of task t returns after its latency; the lock is released.
TimedReturn(t) ==
    /\ pc = "fanout"
    /\ section_tasks[t].st = "calling"
    /\ section_tasks[t].left = 0
    /\ section_tasks' = [section_tasks EXCEPT ![t].st = "done"]
    /\ client_lock' = IF provider = "Ollama" THEN client_lock ELSE FALSE
    /\ UNCHANGED <<commonVars, iterVars, n, n_queued, n_started, n_calling,
                   drafts_failed, ok_usage, judge_reply, attempt, max_retries, helperVars,
                   synthesized_sections, errors_count, clock>>

TimedNext ==
    \/ \E t \in 1..FanOut : TimedCall(t)
    \/ TimedTick
    \/ \E t \in 1..FanOut : TimedReturn(t)

SpecTimedFanOut == TimedInit /\ [][TimedNext]_vars

-----------------------------------------------------------------------------
(* _calculate_cost and _get_pricing_info: the cost estimate of a done payload *)

\* The threads that build a done payload at the same time; the lock and the
\* cache are attributes of the class.
MaxPricingThreads == 2
PricingThreads == 1..MaxPricingThreads

\* self.model_name: a name that ends in ":free", a name of the hardcoded table,
\* a name OpenRouter lists with a pricing, and a name it does not list.
ModelKinds == {"free", "fallback", "listed", "unlisted"}

\* What requests.get and the reading of its response come to: status 200, any
\* other status, or an exception (a timeout after 10 seconds among them).
FetchOutcomes == {"ok", "status", "raise"}

PricingInit ==
    /\ ConfigInit
    /\ refs = <<>>
    /\ drafts = <<>>
    /\ pc = "pricing"
    /\ model_kind \in ModelKinds
    /\ pricing_pc = [t \in PricingThreads |-> "start"]
    /\ pricing_lock = 0
    /\ pricing_cache \in BOOLEAN
    /\ pricing_fresh \in BOOLEAN
    /\ IterIdle
    /\ TournIdle
    /\ SynthIdle
    /\ NamesIdle
    /\ SectionIdle
    /\ EndpointIdle
    /\ StreamIdle

\* _calculate_cost, line 493: a free model is priced without a lookup; else
\* _get_pricing_info is called and comes to its with statement.
CostStart(t) ==
    /\ pc = "pricing"
    /\ pricing_pc[t] = "start"
    /\ pricing_pc' = [pricing_pc EXCEPT
                         ![t] = IF model_kind = "free" THEN "free" ELSE "waiting"]
    /\ UNCHANGED <<commonVars, iterVars, tournVars, synthVars, nameVars, sectionVars,
                   endpointVars, emitted, model_kind, pricing_lock, pricing_cache,
                   pricing_fresh>>

\* Line 505: "with self._pricing_cache_lock:" is entered once the lock is free.
PricingAcquire(t) ==
    /\ pc = "pricing"
    /\ pricing_pc[t] = "waiting"
    /\ pricing_lock = 0
    /\ pricing_lock' = t
    /\ pricing_pc' = [pricing_pc EXCEPT ![t] = "locked"]
    /\ UNCHANGED <<commonVars, iterVars, tournVars, synthVars, nameVars, sectionVars,
                   endpointVars, emitted, model_kind, pricing_cache, pricing_fresh>>

\* Lines 506-523, with the lock held: a valid cache entry or an entry of the
\* hardcoded table is returned, which leaves the with block; for OpenRouter the
\* request is made inside the block; any other provider gets None.
PricingLookup(t) ==
    /\ pc = "pricing"
    /\ pricing_pc[t] = "locked"
    /\ IF pricing_cache /\ pricing_fresh THEN
           /\ pricing_pc' = [pricing_pc EXCEPT ![t] = "priced"]
           /\ pricing_lock' = 0
           /\ UNCHANGED pricing_cache
       ELSE IF model_kind = "fallback" THEN
           /\ pricing_cache' = TRUE
           /\ pricing_pc' = [pricing_pc EXCEPT ![t] = "priced"]
           /\ pricing_lock' = 0
       ELSE IF provider = "OpenRouter" THEN
           /\ pricing_pc' = [pricing_pc EXCEPT ![t] = "fetching"]
           /\ UNCHANGED <<pricing_lock, pricing_cache>>
       ELSE
           /\ pricing_pc' = [pricing_pc EXCEPT ![t] = "unpriced"]
           /\ pricing_lock' = 0
           /\ UNCHANGED pricing_cache
    /\ UNCHANGED <<commonVars, iterVars, tournVars, synthVars, nameVars, sectionVars,
                   endpointVars, emitted, model_kind, pricing_fresh>>

\* Lines 525-544: requests.get returns or raises.  With status 200 every listed
\* model is stored, the timestamp is set and the entry of the model, if there
\* is one, is returned; otherwise None is.  The with block is left.
PricingFetched(t) ==
    /\ pc = "pricing"
    /\ pricing_pc[t] = "fetching"
    /\ \E outcome \in FetchOutcomes :
         IF outcome = "ok" THEN
             LET stored == pricing_cache \/ model_kind = "listed" IN
             /\ pricing_cache' = stored
             /\ pricing_fresh' = TRUE
             /\ pricing_pc' = [pricing_pc EXCEPT
                                  ![t] = IF stored THEN "priced" ELSE "unpriced"]
         ELSE
             /\ pricing_pc' = [pricing_pc EXCEPT ![t] = "unpriced"]
             /\ UNCHANGED <<pricing_cache, pricing_fresh>>
    /\ pricing_lock' = 0
    /\ UNCHANGED <<commonVars, iterVars, tournVars, synthVars, nameVars, sectionVars,
                   endpointVars, emitted, model_kind>>

PricingNext ==
    \E t \in PricingThreads :
        CostStart(t) \/ PricingAcquire(t) \/ PricingLookup(t) \/ PricingFetched(t)

SpecPricing == PricingInit /\ [][PricingNext]_vars

-----------------------------------------------------------------------------
(* Properties of summarize_tournament and summarize_tournament_stream *)

\* The judge call returned a completion with a text.
JudgeSucceeded == judge_reply.kind = "ok" /\ judge_reply.content.some
\* The last judge call raised or was refused.
JudgeFailed == judge_reply.kind \in {"raise", "http_error"}

\* C1: for every provider, a tournament of three drafts of which one failed and
\* whose judge call succeeded returns the judged document, made from the two
\* drafts, with the usage of the two draft calls and the judge call, and no error.
C1_PartialDraftsAreJudged ==
    (pc = "end" /\ n = 3 /\ drafts_failed = 1 /\ Len(drafts) = 2 /\ JudgeSucceeded) =>
        /\ result.kind = "done"
        /\ result.draft_count = 2
        /\ result.usage = AddUsage(ok_usage, judge_reply.usage)
        /\ result.content
             = normalize_output_format(clean_output(judge_reply.content.text)) \o refs

\* C2: when a draft succeeded and the judge stage failed, the terminal output
\* carries the first successful draft as its fallback.
C2_FallbackDraftOnJudgeFailure ==
    (pc = "end" /\ drafts # <<>> /\ JudgeFailed) => result.fallback = Some(drafts[1])

\* C9: no draft of a tournament comes from an empty or whitespace-only completion
\* (such a completion leaves an empty text once cleaned), and n such completions
\* end in the zero-drafts failure without a judge call.
C9_NoEmptyDraft ==
    /\ \A k \in 1..Len(drafts) : drafts[k] # <<>>
    /\ (pc = "end" /\ result.kind # "none" /\ call_usage # ZeroUsage /\ ok_usage = ZeroUsage)
           => (result.msg = "no_drafts" /\ CountCalls("judge") = 0)

-----------------------------------------------------------------------------
(* Properties of summarize_synthesize *)

SynthDone == pc = "end" /\ result.kind = "done" /\ section_tasks # <<>>
Rescued == Len(Reconstruct(synthesized_sections) \o refs) < RescueFloor

\* C3: a section for which exactly one draft yields a fragment is given that
\* fragment unchanged, and no Generation Client call is issued for it.
C3_SingleSourceIsKept ==
    \A s \in 1..Len(section_tasks) :
        (pc \in {"synthesizing", "end"} /\ Len(section_tasks[s].contents) = 1) =>
            /\ ~section_tasks[s].called
            /\ section_tasks[s].st = "done" =>
                   /\ DictHas(synthesized_sections, section_tasks[s].name)
                   /\ DictGet(synthesized_sections, section_tasks[s].name)
                        = section_tasks[s].contents[1]

\* C4 as stated: a rebuilt document under the floor is replaced by the labelled
\* concatenation of the first two drafts, which is at least as long as the floor.
C4_RescueReachesFloor ==
    (SynthDone /\ Rescued) =>
        /\ SubSeq(result.content, 1, Len(RescueLabel)) = RescueLabel
        /\ Len(result.content) >= RescueFloor

\* C4: a rebuilt document under the floor is replaced by the label followed by
\* the first draft and, when there is one, a blank line and the second draft and
\* nothing else; the payload is not empty, and it is as long as the floor only
\* when the joined drafts make up for what the label lacks.
C4_RescueIsLabelledConcatenation ==
    (SynthDone /\ Rescued) =>
        LET c == result.content
            body == SubSeq(c, Len(RescueLabel) + 1, Len(c))
        IN /\ SubSeq(c, 1, Len(RescueLabel)) = RescueLabel
           /\ body = IF Len(drafts) = 1 THEN drafts[1]
                     ELSE drafts[1] \o <<"\n", "\n">> \o drafts[2]
           /\ c # <<>>
           /\ Len(c) >= RescueFloor
                <=> Len(body) >= RescueFloor - Len(RescueLabel)

\* A rescue with three drafts whose first two are long enough to reach the floor.
C4_Witness ==
    SynthDone /\ Rescued /\ Len(drafts) = 3 /\ Len(result.content) >= RescueFloor

-----------------------------------------------------------------------------
(* Properties of the fan-out in time *)

\* C10: a call under way does not keep the other calls of the fan-out from
\* starting, so the fan-out is over when its slowest call is.
C10_MakespanIsSlowestCall ==
    (\A t \in 1..Len(section_tasks) : section_tasks[t].st = "done")
        => clock <= SlowLatency

DoneTasks == {s \in 1..Len(section_tasks) : section_tasks[s].st = "done"}
\* The heading of standard section s in the rebuilt document.
Heading(s) == <<"#", "#", " ">> \o STANDARD_SECTIONS[s]
\* sub occurs in t at place k.
OccursAt(sub, t, k) ==
    k + Len(sub) - 1 <= Len(t) /\ \A j \in 1..Len(sub) : t[k + j - 1] = sub[j]
\* The places of t at which sub occurs.
Occurrences(sub, t) == {k \in 1..Len(t) : OccursAt(sub, t, k)}

\* C12: a section whose synthesis ends in an error adds no content and no usage
\* and leaves the other tasks as they are; every result is either an entry or
\* a counted error; the run still ends with a done event, and the heading of a
\* section without an entry is absent from the rebuilt document.
C12_FailedSectionIsSkipped ==
    /\ [][(pc = "synthesizing" /\ errors_count' # errors_count) =>
            /\ errors_count' = errors_count + 1
            /\ synthesized_sections' = synthesized_sections
            /\ usage_total' = usage_total
            /\ pc' = "synthesizing"
            /\ \E s \in 1..Len(section_tasks) :
                  /\ section_tasks[s].st # "done" /\ section_tasks'[s].st = "done"
                  /\ \A t \in 1..Len(section_tasks) \ {s} :
                        section_tasks'[t] = section_tasks[t]]_vars
    /\ [](pc \in {"synthesizing", "end"} =>
            /\ errors_count + Len(synthesized_sections) = Cardinality(DoneTasks)
            /\ \A s \in DoneTasks :
                  errors_count = 0 => DictHas(synthesized_sections, section_tasks[s].name))
    /\ []((pc = "end" /\ section_tasks # <<>>) =>
            /\ result.kind = "done" /\ events[Len(events)] = "done"
            /\ result.usage = usage_total
            /\ \A s \in 1..Len(section_tasks) :
                  ~DictHas(synthesized_sections, section_tasks[s].name) =>
                      Occurrences(Heading(s), Reconstruct(synthesized_sections)) = {})

\* C12 witness: a run ended in done with one failed section and two synthesized
\* sections that make up the document.
C12_Witness ==
    /\ SynthDone /\ ~Rescued
    /\ errors_count = 1 /\ Len(synthesized_sections) = 2
    /\ usage_total = AddUsage(Usage(2, 1), Usage(2, 1))

\* The non-empty fragment a draft text of the model holds for standard section
\* s, if any.
FragmentOf(text, s) ==
    IF text = SectionDraft /\ s = 2 THEN Some(<<"a", "b">>)
    ELSE IF text = AliasDraft /\ s = 3 THEN Some(<<"m">>)
    ELSE None
\* The fragments of the drafts for standard section s, in the order of the drafts.
FragmentsFor(s) ==
    LET idx == SelectSeq([k \in 1..Len(drafts) |-> k],
                         LAMBDA k : FragmentOf(drafts[k], s).some)
    IN [j \in 1..Len(idx) |-> FragmentOf(drafts[idx[j]], s).text]

C17_StandardOrder ==
    (pc = "end" /\ section_tasks # <<>>) =>
        LET doc == Reconstruct(synthesized_sections)
            hashes == {k \in 1..Len(doc) : doc[k] = "#"}
            at == [s \in 1..Len(STANDARD_SECTIONS) |->
                      {k \in hashes : OccursAt(Heading(s), doc, k)}]
        IN /\ \A s \in 1..Len(STANDARD_SECTIONS) :
                 Cardinality(at[s]) =
                     IF DictHas(synthesized_sections, STANDARD_SECTIONS[s]) THEN 1 ELSE 0
           /\ \A s, t \in 1..Len(STANDARD_SECTIONS) :
                 (s < t /\ at[s] # {} /\ at[t] # {}) =>
                     \A a \in at[s], b \in at[t] : a < b
           /\ ~Rescued => result.content = doc \o refs

\* C17 witness: the last standard section was received first and the first
\* one last, and the document was not rescued.
C17_Witness ==
    /\ SynthDone /\ ~Rescued
    /\ Len(synthesized_sections) = 3
    /\ synthesized_sections[1].k = STANDARD_SECTIONS[3]
    /\ synthesized_sections[3].k = STANDARD_SECTIONS[1]

\* C14: the usage of the done event of summarize_iterative_stream is the sum of
\* the usage of every call of the run: the draft, the critic and the refine calls.
C14_UsageCountsEveryCall ==
    IterDone => result.usage = call_usage

\* C15: the usage of a tournament that ends in done is the sum of the usage of
\* the successful drafts and of the judge call that produced the document.
C15_UsageIsDraftsPlusJudge ==
    (pc = "end" /\ result.kind = "done") =>
        result.usage = AddUsage(ok_usage, judge_reply.usage)

\* C16: a done event or an error event is the last event of its stream.
C16_TerminalEvents ==
    \A k \in 1..Len(events) : events[k] \in {"done", "error"} => k = Len(events)

\* C18: while drafting, at most min(n, 3) draft calls are in flight.
C18_CallsInFlight ==
    pc = "drafting" => n_calling <= Min(n, PoolCap)

-----------------------------------------------------------------------------
(* Properties of normalize_section_name and extract_sections *)

CanonicalNames == {STANDARD_SECTIONS[s] : s \in 1..Len(STANDARD_SECTIONS)}

\* C19: every key of the map of extract_sections is a canonical section name.
C19_KeysAreCanonical ==
    pc = "extracted" =>
        \A k \in 1..Len(section_map) : section_map[k].k \in CanonicalNames

\* C20: normalizing a normalized heading changes nothing, and every canonical
\* name and every alias target is a fixed point.
C20_NormalizeIdempotent ==
    /\ pc = "renormalized" => renormalized = normalized
    /\ \A v \in CanonicalNames \cup {NAME_MAPPINGS[m].v : m \in 1..Len(NAME_MAPPINGS)} :
          normalize_section_name(v, NAME_MAPPINGS) = v

-----------------------------------------------------------------------------
(* The three orchestrators side by side *)

\* One of summarize_iterative_stream, summarize_tournament and
\* summarize_synthesize is invoked; the parameters of the other two keep the
\* value they have when idle, which tells the invoked one apart.
OrchestratorsInit == IterInit \/ TournInit \/ SynthInit

OrchestratorsNext ==
    \/ max_iterations > 0 /\ IterNext
    \/ n > 0 /\ TournNext
    \/ max_retries > 0 /\ SynthNext

SpecOrchestrators == OrchestratorsInit /\ [][OrchestratorsNext]_vars

\* C21: after every accumulation step of an orchestrator's usage total
\* (iterative, tournament, section synthesis) the total tokens are the prompt
\* tokens plus the completion tokens, every per-call record being so.
C21_TotalIsPromptPlusCompletion ==
    /\ usage_total.total_tokens
           = usage_total.prompt_tokens + usage_total.completion_tokens
    /\ result.usage.total_tokens
           = result.usage.prompt_tokens + result.usage.completion_tokens

\* Two records or more have been added and the total is handed over.
C21_Witness ==
    /\ pc = "end" /\ result.kind = "done"
    /\ result.usage = usage_total
    /\ usage_total.completion_tokens >= 2
    /\ usage_total.prompt_tokens > usage_total.completion_tokens

-----------------------------------------------------------------------------
(* Properties of calculate_draft_diversity *)

\* C22: calculate_draft_diversity returns a score in [0, 1] for every list of
\* drafts, exactly 0 for fewer than two drafts and exactly 0 for two identical
\* drafts.  (The score is held in thousandths.)
C22_DiversityRange ==
    pc = "scored" =>
        /\ diversity_score \in 0..1000
        /\ Len(drafts) < 2 => diversity_score = 0
        /\ (Len(drafts) = 2 /\ drafts[1] = drafts[2]) => diversity_score = 0

\* Two identical drafts that are not empty have been scored.
C22_Witness ==
    /\ pc = "scored"
    /\ Len(drafts) = 2 /\ drafts[1] = drafts[2] /\ Len(drafts[1]) > 2
    /\ diversity_score = 0

-----------------------------------------------------------------------------
(* Properties of synthesize_summaries *)

\* The request selects at least two summaries of one book, none of them empty.
ValidSelection ==
    /\ Len(selected) >= 2
    /\ \A k \in 1..Len(selected) : Strip(selected[k].content) # <<>>
    /\ \A k \in 1..Len(selected) : selected[k].book = selected[1].book

\* C23: for a request that selects at least two non-empty summaries of one
\* book, no step of synthesize_summaries between the validation and the
\* streaming of summarize_synthesize fails: the request is never answered
\* with a failure status.
C23_ValidRequestIsStreamed ==
    ValidSelection => http_status \in {0, 200}

-----------------------------------------------------------------------------
(* Properties of one invocation of _synthesize_section *)

SectionReturned == pc = "returned"
LastFailure == IF failures = <<>> THEN "" ELSE failures[Len(failures)]

\* C24: for every provider, _synthesize_section issues at most max_retries
\* calls for one section, and when every attempt fails with a Generic error
\* it has issued exactly max_retries calls when it returns its error result.
C24_RetriesUpToTheCap ==
    /\ Len(calls) <= max_retries
    /\ (/\ SectionReturned /\ section_result.error
        /\ failures # <<>>
        /\ \A k \in 1..Len(failures) : failures[k] = "generic")
           => Len(calls) = max_retries

\* C25: an attempt that returns empty content is retried while attempts
\* remain: the invocation does not end at an empty response unless it was
\* the response of the last attempt.
C25_EmptyContentIsRetried ==
    (SectionReturned /\ LastFailure = "empty") => Len(calls) = max_retries

\* C26: _synthesize_section makes no further call after an attempt fails
\* with a context-length error, however many retries remain: such a failure
\* is the last attempt of the invocation, which has returned.
C26_NoCallAfterContextError ==
    \A k \in 1..Len(failures) :
        failures[k] = "context" =>
            /\ k = Len(failures)
            /\ Len(calls) = k
            /\ SectionReturned /\ section_result.error

\* A context-length failure came after an earlier retry, with retries left.
C26_Witness ==
    /\ SectionReturned
    /\ provider # "Ollama"
    /\ Len(failures) = 2 /\ failures[1] = "rate" /\ failures[2] = "context"
    /\ max_retries = MaxSectionRetries
    /\ Len(calls) = 2

\* C27: when _synthesize_section gives up, the error kind of its result is
\* the kind of the failure that caused it: ContextLengthError for a
\* context-length abort, RateLimitError and TimeoutError for exhaustion by
\* rate limits and by timeouts, and never Unknown.
C27_ErrorKindIsTheCause ==
    (SectionReturned /\ section_result.error) =>
        /\ section_result.error_type # "Unknown"
        /\ LastFailure \in {"context", "rate", "timeout"}
               => section_result.error_type = ErrorTypeOf(LastFailure)

\* The sleep after the k-th failure is followed by another attempt.
RetryFollows(k) == k < Len(failures) \/ (k = Len(failures) /\ pc = "section")

\* C28: successive retries after RateLimited failures wait strictly
\* increasing delays, while retries after Timeout failures wait one fixed
\* short delay.
C28_BackoffIncreases ==
    \A k \in 1..(Len(sleeps) - 1) :
        RetryFollows(k + 1) =>
            /\ (failures[k] = "rate" /\ failures[k + 1] = "rate")
                   => sleeps[k + 1] > sleeps[k]
            /\ (failures[k] = "timeout" /\ failures[k + 1] = "timeout")
                   => sleeps[k + 1] = sleeps[k]

-----------------------------------------------------------------------------
(* The decision gates and the critic of summarize_iterative_stream *)

\* C29: in each iteration the exit conditions are evaluated in the order
\* target met, acceptable, stagnation, max iterations, and the reason of the
\* loop_exit event is the first in that order whose condition holds: a score
\* at or above the target at the last iteration gives target_met, a second
\* consecutive stagnant iteration at the last iteration gives stagnation.
C29_FirstGateInOrder ==
    GatesEvaluated =>
        exit_reason =
            IF score >= target_score THEN "target_met"
            ELSE IF score >= target_score - 10
                    /\ (Len(issues) <= 1 \/ ContainsMinor(issues)) THEN "acceptable"
            ELSE IF TrailingStagnation(Len(score_log)) >= 2 THEN "stagnation"
            ELSE IF Len(score_log) = max_iterations THEN "max_iter"
            ELSE ""

\* The last iteration is the second stagnant one in a row.
C29_Witness ==
    /\ exit_reason = "stagnation"
    /\ Len(score_log) = max_iterations
    /\ max_iterations >= 3

\* C30: when the critic's reply cannot be parsed into a {score, issues,
\* fixes} object, or the critic call fails, the iteration proceeds with score
\* 0 and a single diagnostic issue and the loop is not aborted: no critique
\* ends in an error event, and a critique scored 0 (the score no parsed
\* reply of the model has) carries exactly one issue.
C30_DegradedCriticReport ==
    /\ \A k \in 1..(Len(events) - 1) :
           events[k] = "critic_start" => events[k + 1] = "score"
    /\ (GatesEvaluated /\ score = 0) => Len(issues) = 1

-----------------------------------------------------------------------------
(* The content events of summarize_tournament_stream *)

\* C31: in a run of summarize_tournament_stream that ends in done, the
\* concatenation of all content events equals the text of exactly one judge
\* attempt, followed by the references block if any: text streamed by an
\* attempt that later failed is not part of what the caller accumulates.
C31_OneAttemptIsEmitted ==
    (pc = "end" /\ result.kind = "done") =>
        emitted \in {Streamed(judge_reply), Streamed(judge_reply) \o refs}

-----------------------------------------------------------------------------
(* The client's access discipline *)

\* The chat.completions.create calls under way: the draft tasks and the section
\* tasks inside their call (the judge, critic and refine calls are made one at
\* a time by the orchestrator, after the drafts are in).
CallsInProgress ==
    n_calling + Cardinality({s \in DOMAIN section_tasks : section_tasks[s].st = "calling"})

\* C32: with an OpenAI-compatible client at most one chat.completions.create
\* call is in progress at any time across the concurrent tasks, and
\* _client_lock is held only for the duration of that call: whenever it is
\* held a call is under way, and it is free as soon as no call is.
C32_OneCallAtATime ==
    (provider # "Ollama" /\ has_client) =>
        /\ CallsInProgress <= 1
        /\ client_lock <=> (CallsInProgress = 1)

\* A call holds the lock while another started task waits for it.
C32_Witness ==
    /\ provider # "Ollama" /\ has_client
    /\ client_lock /\ CallsInProgress = 1
    /\ \/ n_started > 0
       \/ \E s \in DOMAIN section_tasks : section_tasks[s].st = "ready"

-----------------------------------------------------------------------------
(* The usage accumulated by summarize_synthesize *)

\* The usage of k successful section results: every successful call reports
\* the one usage of SectionUsages.
UsageOfSections(k) ==
    LET u == CHOOSE v \in SectionUsages : TRUE
    IN Usage(k * u.prompt_tokens, k * u.completion_tokens)

\* C33: in summarize_synthesize, for every interleaving of the concurrently
\* completing section tasks, the final total_usage equals, per counter, the
\* sum of the usages of all successful section results (one stored section per
\* successful result): no update is lost or counted twice.
C33_UsageIsSumOfSuccesses ==
    SynthDone =>
        /\ usage_total = UsageOfSections(Len(synthesized_sections))
        /\ result.usage = usage_total
        /\ Len(synthesized_sections) + errors_count = Len(section_tasks)

\* A run in which two or more section tasks have succeeded.
C33_Witness ==
    /\ SynthDone
    /\ Len(synthesized_sections) >= 2
    /\ errors_count >= 1

-----------------------------------------------------------------------------
(* Termination of summarize_synthesize *)

CountEvents(kind) == Cardinality({k \in 1..Len(events) : events[k] = kind})

\* The run is over: every task has delivered one result, one progress event
\* per task has followed the opening status, and one done event ends the run.
SynthesizeCompleted ==
    /\ pc = "end" /\ result.kind = "done"
    /\ \A s \in 1..Len(section_tasks) : section_tasks[s].st = "done"
    /\ Len(synthesized_sections) + errors_count = Len(section_tasks)
    /\ CountEvents("status") = 1 + Len(section_tasks)
    /\ CountEvents("done") = 1
    /\ events[Len(events)] = "done"

\* C34: every run of summarize_synthesize with a non-empty drafts list
\* terminates: provided each section's generation call returns or fails, every
\* section task delivers exactly one result to the collector, exactly one
\* progress event per section task is emitted, and exactly one done event
\* follows; no task blocks forever on the result channel.
C34_SynthesizeTerminates ==
    (pc = "start" /\ drafts # <<>>) ~> SynthesizeCompleted

\* A completed run of two or more section tasks, one of which took a second pass
\* and failed.
C34_Witness ==
    /\ SynthesizeCompleted
    /\ Len(section_tasks) >= 2
    /\ errors_count >= 1
    /\ Len(synthesized_sections) >= 1

-----------------------------------------------------------------------------
(* The bounded loop of summarize_iterative_stream *)

\* The initial draft is in and the loop is about to start.
LoopEntered == pc = "it_critic" /\ i = 0 /\ CountCalls("critic") = 0

\* The run has ended in a done event, the last thing it did.
IterCompleted ==
    /\ pc = "end" /\ result.kind = "done"
    /\ CountEvents("done") = 1
    /\ events[Len(events)] = "done"

\* The counts of the calls so far and, once the run is over, that no draft a
\* refinement produced is left without a critique: if the last call was a
\* refine call, it failed and produced nothing.
LoopWithinBounds ==
    /\ CountCalls("critic") <= max_iterations
    /\ CountCalls("refine") <= max_iterations - 1
    /\ CountCalls("refine") <= CountCalls("critic")
    /\ (pc = "end" /\ calls # <<>> /\ calls[Len(calls)] = "refine") => refine_failed

-----------------------------------------------------------------------------
(* The headings of the reconstructed document *)

\* C36: every section heading in the document reconstructed by
\* summarize_synthesize is followed by non-empty content: a canonical section
\* with no synthesized result, or whose synthesized content is empty after
\* cleaning, gets no heading.
C36_HeadingsHaveContent ==
    (SynthDone /\ ~Rescued) =>
        LET final_parts == FinalParts(synthesized_sections, 1)
        IN /\ result.content = Strip(Join(final_parts, <<"\n">>)) \o refs
           /\ \A j \in 1..Len(final_parts) :
                 j % 3 = 1 => Strip(final_parts[j + 1]) # <<>>

-----------------------------------------------------------------------------
(* Headings of one draft: repeated sections, dropped vocabulary, fragments *)

\* The heading of the draft is a markdown heading of ANALYTICAL FRAMEWORK, under
\* its own name or an alias, with the body "x", and the draft goes on with a
\* second heading of that section with the body "z".
TwoHeadingsOfOneSection ==
    /\ MarkdownMatch(heading).some
    /\ normalize_section_name(heading, NAME_MAPPINGS) = AnalyticalFramework
    /\ Contains(<<"\n", "x">>, document)
    /\ Contains(AnalyticalFramework \o <<"\n", "z">>, document)

\* C37: if one draft contains several headings that normalize to the same
\* canonical section, the fragment collected from that draft for the section
\* contains the body of each of them; no body is overwritten by a later
\* heading of the same section.
C37_RepeatedSectionKeepsEveryBody ==
    (pc = "extracted" /\ TwoHeadingsOfOneSection) =>
        LET matched == match_section_in_draft(AnalyticalFramework, section_map)
        IN /\ matched.some
           /\ Contains(<<"x">>, matched.text)
           /\ Contains(<<"z">>, matched.text)

\* The draft without the line of its heading.
DocumentWithoutHeading ==
    Join(SelectSeq(Split(document, "\n"), LAMBDA line : line # heading), <<"\n">>)

\* C38: in extract_sections a heading line that carries vocabulary of a dropped
\* section (STRATEGIC, ACTION, LIMITATIONS, CRITICAL) never opens a new section
\* bucket and is never appended to the current section's body, whichever
\* heading syntax it uses: the map is that of the draft without the line.
C38_DroppedVocabularyIsSkipped ==
    (pc = "extracted" /\ HasKeyword(heading, SkipKeywords)) =>
        section_map = extract_sections(DocumentWithoutHeading, NAME_MAPPINGS)

\* The cleaned heading of normalize_section_name (lines 34-39).
CleanedHeading(name) ==
    LET unhashed == IF name # <<>> /\ Head(name) = "#"
                    THEN Strip(LStripHash(name)) ELSE name
    IN Strip(Upper(Strip(NormalizeSpace(CleanHeader(unhashed)))))

\* The names a heading can be mapped by: the aliases and the canonical names.
MappingNames ==
    {NAME_MAPPINGS[m].k : m \in 1..Len(NAME_MAPPINGS)} \cup CanonicalNames

\* C39: normalize_section_name maps a heading to a canonical section only if
\* the cleaned heading equals an alias or a canonical name or contains one; a
\* heading whose cleaned text is empty or a mere fragment of an alias is
\* returned unmapped.
C39_MappedOnlyByAName ==
    pc = "normalized" =>
        IF \E name \in MappingNames : Contains(name, CleanedHeading(heading))
        THEN normalized \in CanonicalNames
        ELSE normalized = CleanedHeading(heading)

-----------------------------------------------------------------------------
(* Locks and network requests *)

\* C40: no thread performs blocking network I/O while holding a lock other
\* than _client_lock; in particular _pricing_cache_lock is never held across
\* an HTTP request made for the cost estimate of a done payload.
C40_NoRequestUnderPricingLock ==
    \A t \in DOMAIN pricing_pc : pricing_pc[t] = "fetching" => pricing_lock # t

====
